---- MODULE Spec2Model ----
(***************************************************************************)
(* A model of the SeaBASS reader/writer class readSB                       *)
(* (src/Seabass/SB_support_updated.py): the constructor that parses a      *)
(* file, fd_datetime, addDataToOutput and writeSBfile.                     *)
(*                                                                         *)
(* Text is modelled as TLA+ strings, taken apart character by character    *)
(* with Len, SubSeq and \o, so that the substring tests, splits, regular   *)
(* expressions and number conversions of the code are computed, not        *)
(* assumed.  The alphabet is ASCII letters, digits, space, tab and         *)
(* punctuation; number tokens have no "_" digit grouping.                  *)
(***************************************************************************)
EXTENDS Integers, Sequences, FiniteSets, TLC

(***************************************************************************)
(* Strings                                                                 *)
(***************************************************************************)

\* s[i] of Python (1-based here): the one-character string at position i.
Ch(s, i) == SubSeq(s, i, i)

\* s[i-1:j] of Python: the characters i..j of s that exist.
Slice(s, i, j) ==
    LET a == IF i < 1 THEN 1 ELSE i
        b == IF j > Len(s) THEN Len(s) ELSE j
    IN  IF a > b THEN "" ELSE SubSeq(s, a, b)

\* `pat in s`
Contains(s, pat) ==
    \E i \in 1..(Len(s) - Len(pat) + 1) : SubSeq(s, i, i + Len(pat) - 1) = pat

UpperChars == "ABCDEFGHIJKLMNOPQRSTUVWXYZ"
LowerChars == "abcdefghijklmnopqrstuvwxyz"

\* The lower-case letter of each upper-case letter.
LowerMap ==
    [c \in {Ch(UpperChars, i) : i \in 1..Len(UpperChars)} |->
        Ch(LowerChars, CHOOSE i \in 1..Len(UpperChars) : Ch(UpperChars, i) = c)]

LowerCh(c) == IF c \in DOMAIN LowerMap THEN LowerMap[c] ELSE c

\* str.lower()
RECURSIVE Lower(_)
Lower(s) == IF s = "" THEN "" ELSE LowerCh(Ch(s, 1)) \o Lower(Tail(s))

IsSpaceCh(c) == c \in {" ", "\t"}
IsDigitCh(c) == c \in {"0", "1", "2", "3", "4", "5", "6", "7", "8", "9"}

\* str.strip()
RECURSIVE LStrip(_)
LStrip(s) == IF s # "" /\ IsSpaceCh(Ch(s, 1)) THEN LStrip(Tail(s)) ELSE s
RECURSIVE RStrip(_)
RStrip(s) ==
    IF s # "" /\ IsSpaceCh(Ch(s, Len(s))) THEN RStrip(SubSeq(s, 1, Len(s) - 1)) ELSE s
Strip(s) == RStrip(LStrip(s))

\* The position of the first occurrence of the character c in s, 0 if none.
IndexOf(s, c) ==
    IF \E i \in 1..Len(s) : Ch(s, i) = c
    THEN CHOOSE i \in 1..Len(s) : Ch(s, i) = c /\ \A j \in 1..(i - 1) : Ch(s, j) # c
    ELSE 0

\* s.split(c, 1): one or two parts.
Split1(s, c) ==
    LET i == IndexOf(s, c)
    IN  IF i = 0 THEN <<s>> ELSE <<SubSeq(s, 1, i - 1), SubSeq(s, i + 1, Len(s))>>

\* s.split(c): every part, empty parts kept.
RECURSIVE Split(_, _)
Split(s, c) ==
    LET i == IndexOf(s, c)
    IN  IF i = 0 THEN <<s>>
        ELSE <<SubSeq(s, 1, i - 1)>> \o Split(SubSeq(s, i + 1, Len(s)), c)

\* The three delimiter patterns of the reader: a run of one character class.
DelimComma == ",+"
DelimSpace == "\\s+"
DelimTab   == "\\t+"

IsDelimCh(delim, c) ==
    CASE delim = DelimComma -> c = ","
      [] delim = DelimSpace -> IsSpaceCh(c)
      [] delim = DelimTab   -> c = "\t"
      [] OTHER              -> FALSE

\* The length of the run of delimiter characters that starts s.
RECURSIVE RunLen(_, _)
RunLen(delim, s) ==
    IF s # "" /\ IsDelimCh(delim, Ch(s, 1)) THEN 1 + RunLen(delim, Tail(s)) ELSE 0

\* The length of the longest prefix of s without a delimiter character.
RECURSIVE TokLen(_, _)
TokLen(delim, s) ==
    IF s # "" /\ ~IsDelimCh(delim, Ch(s, 1)) THEN 1 + TokLen(delim, Tail(s)) ELSE 0

\* re.split(delim, s): the pieces between maximal runs of the delimiter
\* class; a run at either end of s yields an empty piece there.
RECURSIVE ReSplit(_, _)
ReSplit(delim, s) ==
    LET t == TokLen(delim, s)
        rest == SubSeq(s, t + 1, Len(s))
        r == RunLen(delim, rest)
    IN  IF rest = "" THEN <<SubSeq(s, 1, t)>>
        ELSE <<SubSeq(s, 1, t)>> \o ReSplit(delim, SubSeq(rest, r + 1, Len(rest)))

\* sep.join(parts)
RECURSIVE Join(_, _)
Join(sep, parts) ==
    IF parts = <<>> THEN ""
    ELSE IF Len(parts) = 1 THEN parts[1]
    ELSE parts[1] \o sep \o Join(sep, Tail(parts))

(***************************************************************************)
(* Numbers.  A data cell is a record [t, n, e, s]:                         *)
(*   t = "int"   the Python int n                                          *)
(*   t = "float" the Python float n / 10^e (e digits after the point,      *)
(*               normalised: e = 0 or n not divisible by 10)               *)
(*   t = "inf"   the float +inf (n = 1) or -inf (n = -1)                   *)
(*   t = "nan"   the float not-a-number                                    *)
(*   t = "str"   the Python str s                                          *)
(*   t = "none"  the empty string '' of an attribute never assigned        *)
(***************************************************************************)

IntCell(n)      == [t |-> "int",   n |-> n, e |-> 0, s |-> ""]
FloatCell(n, e) == [t |-> "float", n |-> n, e |-> e, s |-> ""]
InfCell(n)      == [t |-> "inf",   n |-> n, e |-> 0, s |-> ""]
NaN             == [t |-> "nan",   n |-> 0, e |-> 0, s |-> ""]
StrCell(s)      == [t |-> "str",   n |-> 0, e |-> 0, s |-> s]
Unset           == [t |-> "none",  n |-> 0, e |-> 0, s |-> ""]

IsNumeric(c) == c.t \in {"int", "float", "inf", "nan"}

DigitVal(c) == CHOOSE d \in 0..9 : Ch("0123456789", d + 1) = c

RECURSIVE Pow10(_)
Pow10(k) == IF k = 0 THEN 1 ELSE 10 * Pow10(k - 1)

\* The value of a string of decimal digits.
RECURSIVE DigitsToInt(_)
DigitsToInt(s) ==
    IF s = "" THEN 0
    ELSE 10 * DigitsToInt(SubSeq(s, 1, Len(s) - 1)) + DigitVal(Ch(s, Len(s)))

\* The length of the run of digits that starts s.
RECURSIVE DigitRun(_)
DigitRun(s) == IF s # "" /\ IsDigitCh(Ch(s, 1)) THEN 1 + DigitRun(Tail(s)) ELSE 0

RECURSIVE Normalise(_, _)
Normalise(n, e) ==
    IF e > 0 /\ n % 10 = 0 THEN Normalise(n \div 10, e - 1) ELSE <<n, e>>

\* The last stage of ParseNumber: the value of a literal with the digits
\* mant, sc of them after the point.
ParseValue(s0, neg, wellFormed, whole, mant, sc) ==
    IF ~wellFormed THEN [ok |-> FALSE, int |-> FALSE, val |-> StrCell(s0)]
    ELSE IF whole
    THEN [ok |-> TRUE, int |-> TRUE, val |-> IntCell(IF neg THEN 0 - mant ELSE mant)]
    ELSE [ok |-> TRUE, int |-> FALSE,
          val |-> IF sc < 0
                  THEN FloatCell((IF neg THEN 0 - mant ELSE mant) * Pow10(0 - sc), 0)
                  ELSE FloatCell((IF neg THEN -1 ELSE 1) * Normalise(mant, sc)[1],
                                 Normalise(mant, sc)[2])]

\* The digits of the exponent: r5 is the text after e and its sign.
ParseExpDigits(s0, neg, ip, dot, fp, ex, eneg, r5) ==
    ParseValue(s0, neg,
               /\ Len(ip) + Len(fp) >= 1
               /\ (ex => DigitRun(r5) >= 1)
               /\ SubSeq(r5, (IF ex THEN DigitRun(r5) ELSE 0) + 1, Len(r5)) = "",
               ~dot /\ ~ex,
               DigitsToInt(ip \o fp),
               IF ~ex THEN Len(fp)
               ELSE IF eneg THEN Len(fp) + DigitsToInt(SubSeq(r5, 1, DigitRun(r5)))
               ELSE Len(fp) - DigitsToInt(SubSeq(r5, 1, DigitRun(r5))))

\* The sign of the exponent: r4 is the text after e.
ParseExpSign(s0, neg, ip, dot, fp, ex, r4) ==
    ParseExpDigits(s0, neg, ip, dot, fp, ex,
                   ex /\ r4 # "" /\ Ch(r4, 1) = "-",
                   IF ex /\ r4 # "" /\ Ch(r4, 1) \in {"+", "-"} THEN Tail(r4) ELSE r4)

\* The exponent mark: r3 is the text after the digits of the fraction.
ParseExp(s0, neg, ip, dot, fp, r3) ==
    ParseExpSign(s0, neg, ip, dot, fp,
                 r3 # "" /\ Ch(r3, 1) = "e",
                 IF r3 # "" /\ Ch(r3, 1) = "e" THEN Tail(r3) ELSE r3)

\* The digits of the fraction: r2 is the text after the point.
ParseFracDigits(s0, neg, ip, dot, r2) ==
    ParseExp(s0, neg, ip, dot,
             SubSeq(r2, 1, IF dot THEN DigitRun(r2) ELSE 0),
             SubSeq(r2, (IF dot THEN DigitRun(r2) ELSE 0) + 1, Len(r2)))

\* The point: r1 is the text after the digits of the integer part ip.
ParseFrac(s0, neg, ip, r1) ==
    ParseFracDigits(s0, neg, ip,
                    r1 # "" /\ Ch(r1, 1) = ".",
                    IF r1 # "" /\ Ch(r1, 1) = "." THEN Tail(r1) ELSE r1)

\* The unsigned literal b: inf, infinity, nan or a decimal literal.
ParseBody(s0, neg, b) ==
    IF b \in {"inf", "infinity"}
    THEN [ok |-> TRUE, int |-> FALSE, val |-> InfCell(IF neg THEN -1 ELSE 1)]
    ELSE IF b = "nan"
    THEN [ok |-> TRUE, int |-> FALSE, val |-> NaN]
    ELSE ParseFrac(s0, neg, SubSeq(b, 1, DigitRun(b)),
                   SubSeq(b, DigitRun(b) + 1, Len(b)))

\* The sign: s is the literal without surrounding blanks, in lower case.
ParseSign(s0, s) ==
    ParseBody(s0, s # "" /\ Ch(s, 1) = "-",
              IF s # "" /\ Ch(s, 1) \in {"+", "-"} THEN Tail(s) ELSE s)

\* The literal s, read as Python's float(s) and int(s) read it: surrounding
\* blanks and a sign, then digits[.digits][e[sign]digits], inf, infinity or
\* nan.  ok: float(s) succeeds; int: int(s) succeeds too.
ParseNumber(s0) == ParseSign(s0, Lower(Strip(s0)))

\* is_number(s) of the reader: float(s) raises no ValueError.
is_number(s) == ParseNumber(s).ok

\* is_int(s) of the reader: int(s) raises no ValueError.
is_int(s) == ParseNumber(s).int

\* float(s) for a string float() accepts: the value as a float.
ToFloat(c) == IF c.t = "int" THEN FloatCell(c.n, 0) ELSE c
FloatOf(s) == ToFloat(ParseNumber(s).val)

\* a == b of Python on two cells: numbers compare by value across int and
\* float, not-a-number equals nothing, a number never equals a str or ''.
PyEq(a, b) ==
    CASE a.t \in {"int", "float"} /\ b.t \in {"int", "float"} -> a.n = b.n /\ a.e = b.e
      [] a.t = "inf" /\ b.t = "inf" -> a.n = b.n
      [] a.t \in {"str", "none"} /\ b.t \in {"str", "none"} -> a.s = b.s
      [] OTHER -> FALSE

\* The truth value Python gives a cell: '' and zero are false.
Truthy(c) ==
    CASE c.t \in {"int", "float"} -> c.n # 0
      [] c.t \in {"str", "none"}  -> c.s # ""
      [] OTHER                    -> TRUE

\* str(n) of a non-negative int.
RECURSIVE NatToStr(_)
NatToStr(n) ==
    IF n < 10 THEN Ch("0123456789", n + 1)
    ELSE NatToStr(n \div 10) \o Ch("0123456789", (n % 10) + 1)

RECURSIVE ZeroPad(_, _)
ZeroPad(s, w) == IF Len(s) < w THEN ZeroPad("0" \o s, w) ELSE s

Abs(n) == IF n < 0 THEN 0 - n ELSE n

\* str(x) of Python: repr of a float is positional from 1e-04 up, with at
\* least one digit after the point, and d[.ddd]e-XX below that.
PyStr(c) ==
    LET m  == Abs(c.n)
        sg == IF c.n < 0 THEN "-" ELSE ""
        D  == NatToStr(m)
    IN  CASE c.t = "int"  -> sg \o D
          [] c.t = "nan"  -> "nan"
          [] c.t = "inf"  -> sg \o "inf"
          [] c.t \in {"str", "none"} -> c.s
          [] c.t = "float" /\ c.e = 0 -> sg \o D \o ".0"
          [] c.t = "float" /\ c.e > 0 /\ Len(D) + 4 > c.e ->
                sg \o NatToStr(m \div Pow10(c.e)) \o "."
                   \o ZeroPad(NatToStr(m % Pow10(c.e)), c.e)
          [] OTHER ->
                sg \o Ch(D, 1)
                   \o (IF Len(D) > 1 THEN "." \o Tail(D) ELSE "")
                   \o "e-" \o ZeroPad(NatToStr(c.e - Len(D) + 1), 2)

(***************************************************************************)
(* OrderedDict: a sequence of [k, v] entries in insertion order.           *)
(***************************************************************************)

OdHas(od, k) == \E i \in 1..Len(od) : od[i].k = k
OdIdx(od, k) == CHOOSE i \in 1..Len(od) : od[i].k = k
OdGet(od, k) == od[OdIdx(od, k)].v
OdKeys(od)   == [i \in 1..Len(od) |-> od[i].k]
\* od[k] = v: a key already present keeps its place.
OdSet(od, k, v) ==
    IF OdHas(od, k)
    THEN [od EXCEPT ![OdIdx(od, k)] = [k |-> k, v |-> v]]
    ELSE Append(od, [k |-> k, v |-> v])

(***************************************************************************)
(* readSB.__init__: the reader.  The state of one run of the constructor   *)
(* is a record of the attributes of self and of the locals end_header,     *)
(* delim, _vars and _units.  A local that no line has assigned yet is      *)
(* unbound: reading it raises UnboundLocalError.  err is the exception     *)
(* that ended the run, "" while there is none.                             *)
(***************************************************************************)

\* Lines 81-95: the attributes as the constructor first sets them.
NewReader ==
    [headers          |-> <<>>,
     comments         |-> <<>>,
     variables        |-> <<>>,
     data             |-> <<>>,
     missing          |-> Unset,
     adl              |-> Unset,
     bdl              |-> Unset,
     pi               |-> "",
     length           |-> 0,
     empty_col        |-> <<>>,
     data_use_warning |-> FALSE,
     end_header       |-> FALSE,
     delim            |-> "",
     delim_bound      |-> FALSE,
     vars             |-> <<>>,
     vars_bound       |-> FALSE,
     units            |-> <<>>,
     units_bound      |-> FALSE,
     warnings         |-> {},
     err              |-> ""]

Raise(st, kind) == [st EXCEPT !.err = kind]

\* An exception leaves the constructor: nothing after it runs.
OrElse(st, next) == IF st.err # "" THEN st ELSE next

\* line.split('=', 1)[1]
ValueOf(line) == Split1(line, "=")[2]

\* `'/key=' in line.lower() and not '!' in line`; low is line.lower().
IsDirective(line, low, key) == Contains(low, key) /\ ~Contains(line, "!")

\* Lines 164-178: a header line is stored under its lower-cased key
\* without the first character.
ExtractHeader(st, line, low) ==
    OrElse(st,
      IF /\ ~st.end_header
         /\ ~Contains(low, "/begin_header")
         /\ ~Contains(low, "/end_header")
         /\ ~Contains(line, "!")
         /\ line # ""
      THEN LET hv == Split1(line, "=")
           IN  IF Len(hv) = 2
               THEN [st EXCEPT !.headers = OdSet(@, Tail(Lower(hv[1])), hv[2])]
               ELSE Raise(st, "MalformedDirective")
      ELSE st)

\* Lines 184-185: every name of the list gets an empty column.
RECURSIVE ResetColumns(_, _)
ResetColumns(data, names) ==
    IF names = <<>> THEN data
    ELSE ResetColumns(OdSet(data, Head(names), <<>>), Tail(names))

\* Lines 181-189
ExtractFields(st, line, low) ==
    OrElse(st,
      IF IsDirective(line, low, "/fields=")
      THEN LET names == Split(Lower(ValueOf(line)), ",")
           IN  [st EXCEPT !.vars = names, !.vars_bound = TRUE,
                          !.data = ResetColumns(@, names)]
      ELSE st)

\* Lines 192-193
ExtractUnits(st, line, low) ==
    OrElse(st,
      IF IsDirective(line, low, "/units=")
      THEN [st EXCEPT !.units = Split(Lower(ValueOf(line)), ","), !.units_bound = TRUE]
      ELSE st)

\* Lines 196-202
ExtractMissing(st, line, low) ==
    OrElse(st,
      IF IsDirective(line, low, "/missing=")
      THEN IF is_number(ValueOf(line))
           THEN [st EXCEPT !.missing = FloatOf(ValueOf(line))]
           ELSE Raise(st, "InvalidSentinelValue")
      ELSE st)

\* Lines 205-206
ExtractDataUseWarning(st, line, low) ==
    OrElse(st,
      IF IsDirective(line, low, "/data_use_warning=")
      THEN [st EXCEPT !.data_use_warning = TRUE]
      ELSE st)

\* Lines 209-215
ExtractBdl(st, line, low) ==
    OrElse(st,
      IF IsDirective(line, low, "/below_detection_limit=")
      THEN IF is_number(ValueOf(line))
           THEN [st EXCEPT !.bdl = FloatOf(ValueOf(line))]
           ELSE Raise(st, "InvalidSentinelValue")
      ELSE st)

\* Lines 218-224
ExtractAdl(st, line, low) ==
    OrElse(st,
      IF IsDirective(line, low, "/above_detection_limit=")
      THEN IF is_number(ValueOf(line))
           THEN [st EXCEPT !.adl = FloatOf(ValueOf(line))]
           ELSE Raise(st, "InvalidSentinelValue")
      ELSE st)

\* Lines 227-228
ExtractPI(st, line, low) ==
    OrElse(st,
      IF IsDirective(line, low, "/investigators=")
      THEN [st EXCEPT !.pi = Split1(ValueOf(line), ",")[1]]
      ELSE st)

\* Lines 231-240
ExtractDelimiter(st, line, low) ==
    OrElse(st,
      IF IsDirective(line, low, "/delimiter=")
      THEN CASE Contains(low, "comma") ->
                  [st EXCEPT !.delim = DelimComma, !.delim_bound = TRUE]
             [] Contains(low, "space") ->
                  [st EXCEPT !.delim = DelimSpace, !.delim_bound = TRUE]
             [] Contains(low, "tab") ->
                  [st EXCEPT !.delim = DelimTab, !.delim_bound = TRUE]
             [] OTHER -> Raise(st, "InvalidDelimiter")
      ELSE st)

\* Lines 244-249
ExtractComments(st, line, opt) ==
    OrElse(st,
      IF opt.mask_commented_headers
      THEN IF Contains(line, "!") /\ ~Contains(line, "!/")
           THEN [st EXCEPT !.comments = Append(@, Tail(line))]
           ELSE st
      ELSE IF Contains(line, "!")
           THEN [st EXCEPT !.comments = Append(@, Tail(line))]
           ELSE st)

\* Lines 252-277: the checks made when the line holds /end_header.  The
\* locals delim and _vars are read whether or not a line has bound them.
CheckEndHeader(st, opt) ==
    IF ~st.delim_bound THEN Raise(st, "UnboundLocalError")
    ELSE IF st.delim = "" THEN Raise(st, "MissingDelimiter")
    ELSE IF ~Truthy(st.missing) THEN Raise(st, "MissingSentinel")
    ELSE IF ~st.vars_bound THEN Raise(st, "UnboundLocalError")
    ELSE IF st.vars = <<>> THEN Raise(st, "MissingFields")
    ELSE [st EXCEPT
            !.end_header = TRUE,
            !.warnings = @
               \cup (IF st.data_use_warning /\ ~opt.no_warn
                     THEN {"data_use_warning"} ELSE {})
               \cup (IF opt.mask_above_detection_limit /\ ~opt.no_warn
                        /\ ~Truthy(st.adl)
                     THEN {"no above_detection_limit"} ELSE {})
               \cup (IF opt.mask_below_detection_limit /\ ~opt.no_warn
                        /\ ~Truthy(st.bdl)
                     THEN {"no below_detection_limit"} ELSE {})]

\* Mask with the flag ignored: a cell equal to the sentinel always becomes nan.
MaskIgnoringFlag(c, on, sentinel) == IF PyEq(c, sentinel) THEN NaN ELSE c

\* Lines 289-298: a cell equal to the sentinel, under the flag `on`,
\* becomes nan.
Mask(c, on, sentinel) == IF on /\ PyEq(c, sentinel) THEN NaN ELSE c

\* DecodeToken that masks nothing unless both detection limits are set.
DecodeTokenNeedsBothLimits(dat, st, opt) ==
    IF ~is_number(dat) THEN StrCell(dat)
    ELSE IF st.adl = Unset \/ st.bdl = Unset THEN ParseNumber(dat).val
    ELSE Mask(Mask(Mask(ParseNumber(dat).val, opt.mask_above_detection_limit,
                        ToFloat(st.adl)),
                   opt.mask_below_detection_limit, ToFloat(st.bdl)),
              opt.mask_missing, st.missing)

\* Lines 283-298: one token of a data line as the cell that is stored.  The
\* two detection limits are compared only once a header line has set them.
DecodeToken(dat, st, opt) ==
    IF is_number(dat)
    THEN Mask(Mask(Mask(ParseNumber(dat).val,
                        opt.mask_above_detection_limit /\ st.adl # Unset,
                        ToFloat(st.adl)),
                   opt.mask_below_detection_limit /\ st.bdl # Unset,
                   ToFloat(st.bdl)),
              opt.mask_missing, st.missing)
    ELSE StrCell(dat)

Min(a, b) == IF a < b THEN a ELSE b

\* Lines 282-300: zip(_vars, tokens) pairs the two lists up to the shorter
\* one; each pair appends one cell to the column of that name.
RECURSIVE AppendRow(_, _, _, _, _)
AppendRow(data, names, toks, st, opt) ==
    IF names = <<>> \/ toks = <<>> THEN data
    ELSE AppendRow(
           OdSet(data, Head(names),
                 Append(OdGet(data, Head(names)), DecodeToken(Head(toks), st, opt))),
           Tail(names), Tail(toks), st, opt)

\* Lines 280-306
ExtractData(st, line, opt) ==
    IF st.end_header /\ line # ""
    THEN [st EXCEPT
            !.data = AppendRow(@, st.vars, ReSplit(st.delim, line), st, opt),
            !.length = @ + 1]
    ELSE st

\* Lines 252-306: the end of the loop body, the checks at /end_header or
\* the data line.
ExtractEnd(st, line, low, opt) ==
    OrElse(st,
      IF Contains(low, "/end_header") THEN CheckEndHeader(st, opt)
      ELSE ExtractData(st, line, opt))

\* Lines 161-306: the body of the loop, for one line; low is line.lower().
ParseLineLower(st, line, low, opt) ==
    ExtractEnd(
      ExtractComments(
        ExtractDelimiter(
          ExtractPI(
            ExtractAdl(
              ExtractBdl(
                ExtractDataUseWarning(
                  ExtractMissing(
                    ExtractUnits(
                      ExtractFields(
                        ExtractHeader(st, line, low),
                        line, low),
                      line, low),
                    line, low),
                  line, low),
                line, low),
              line, low),
            line, low),
          line, low),
        line, opt),
      line, low, opt)

ParseLine(st, line, opt) == ParseLineLower(st, line, Lower(line), opt)

RECURSIVE ParseLines(_, _, _)
ParseLines(st, lines, opt) ==
    IF lines = <<>> \/ st.err # "" THEN st
    ELSE ParseLines(ParseLine(st, Head(lines), opt), Tail(lines), opt)

\* zip(a, b) as (key, value) entries fed to OrderedDict: a later entry of
\* the same key replaces the value of the earlier one.
RECURSIVE ZipDict(_, _)
ZipDict(a, b) ==
    IF a = <<>> \/ b = <<>> THEN <<>>
    ELSE LET n == Min(Len(a), Len(b))
         IN  OdSet(ZipDict(SubSeq(a, 1, n - 1), SubSeq(b, 1, n - 1)), a[n], b[n])

\* zip(a, b) as a list of pairs
Zip(a, b) == [i \in 1..Min(Len(a), Len(b)) |-> <<a[i], b[i]>>]

\* Lines 308-315: the field -> unit map.
AttachUnits(st, opt) ==
    IF st.vars_bound /\ st.units_bound
    THEN [st EXCEPT !.variables = ZipDict(st.vars, Zip(st.vars, st.units))]
    ELSE IF st.vars_bound
    THEN [st EXCEPT !.variables = ZipDict(st.vars, st.vars),
                    !.warnings = @ \cup (IF opt.no_warn THEN {} ELSE {"no units"})]
    ELSE Raise(st, "UnboundLocalError")

\* Line 159: line endings removed, then strip().
RECURSIVE DropNewlines(_)
DropNewlines(s) ==
    IF s = "" THEN ""
    ELSE IF Ch(s, 1) \in {"\n", "\r"} THEN DropNewlines(Tail(s))
    ELSE Ch(s, 1) \o DropNewlines(Tail(s))

NormaliseLines(lines) == [i \in 1..Len(lines) |-> Strip(DropNewlines(lines[i]))]

\* readSB(filename, ...) on a file that holds `lines`.
ReadSB(lines, opt) ==
    LET st == ParseLines(NewReader, NormaliseLines(lines), opt)
    IN  OrElse(st, AttachUnits(st, opt))

(***************************************************************************)
(* fd_datetime: the list of datetimes of the rows.                         *)
(***************************************************************************)

\* millisecondToMicrosecond with the zeros put in front.
RECURSIVE LeftPadded(_)
LeftPadded(millisecond) ==
    IF Len(millisecond) < 6 THEN LeftPadded("0" \o millisecond) ELSE millisecond

\* Lines 321-324: zeros appended until there are six characters.
RECURSIVE millisecondToMicrosecond(_)
millisecondToMicrosecond(millisecond) ==
    IF Len(millisecond) < 6
    THEN millisecondToMicrosecond(millisecond \o "0")
    ELSE millisecond

AllDigits(s) == \A i \in 1..Len(s) : IsDigitCh(Ch(s, i))

NoMatch == [ok |-> FALSE, g |-> <<>>]

\* re.search("(\d{4})(\d{2})(\d{2})", s): the first eight digits in a row.
\* g holds the three groups.
SearchDate(s) ==
    LET hit(i) == AllDigits(SubSeq(s, i, i + 7))
    IN  IF \E i \in 1..(Len(s) - 7) : hit(i)
        THEN LET i == CHOOSE i \in 1..(Len(s) - 7) :
                          hit(i) /\ \A j \in 1..(i - 1) : ~hit(j)
             IN  [ok |-> TRUE,
                  g |-> <<SubSeq(s, i, i + 3), SubSeq(s, i + 4, i + 5),
                          SubSeq(s, i + 6, i + 7)>>]
        ELSE NoMatch

\* "(\d{1,2})\:(\d{2})\:(\d{2})" matched at position i with an hour of hl
\* digits.
HmsAt(s, i, hl) ==
    /\ i + hl + 5 <= Len(s)
    /\ AllDigits(SubSeq(s, i, i + hl - 1))
    /\ Ch(s, i + hl) = ":"
    /\ AllDigits(SubSeq(s, i + hl + 1, i + hl + 2))
    /\ Ch(s, i + hl + 3) = ":"
    /\ AllDigits(SubSeq(s, i + hl + 4, i + hl + 5))

\* The match of the time pattern at position i, the two-digit hour tried
\* first.  suffix = "" is timeRegex; suffix = "[" is the /start_time
\* pattern, which must go on with [gmt] or [GMT].  g holds groups 1 to 4;
\* group 4 is "" where Python gives None, else the point and its digits.
TimeAt(s, i, suffix) ==
    LET try(hl) ==
          IF ~HmsAt(s, i, hl) THEN NoMatch
          ELSE LET p    == i + hl + 6
                   rest == SubSeq(s, p, Len(s))
                   fl   == IF rest # "" /\ Ch(rest, 1) = "."
                           THEN Min(DigitRun(Tail(rest)), 6) ELSE 0
                   tz(k) == Slice(rest, k, k + 4) \in {"[gmt]", "[GMT]"}
                   grp(f) == <<SubSeq(s, i, i + hl - 1),
                               SubSeq(s, i + hl + 1, i + hl + 2),
                               SubSeq(s, i + hl + 4, i + hl + 5), f>>
               IN  IF suffix = ""
                   THEN [ok |-> TRUE,
                         g |-> grp(IF fl > 0 THEN SubSeq(rest, 1, fl + 1) ELSE "")]
                   ELSE IF fl > 0 /\ tz(fl + 2)
                   THEN [ok |-> TRUE, g |-> grp(SubSeq(rest, 1, fl + 1))]
                   ELSE IF tz(1)
                   THEN [ok |-> TRUE, g |-> grp("")]
                   ELSE NoMatch
    IN  IF try(2).ok THEN try(2) ELSE try(1)

\* re.search of the time pattern: the match at the first position that has one.
SearchTimeWith(s, suffix) ==
    IF \E i \in 1..Len(s) : TimeAt(s, i, suffix).ok
    THEN TimeAt(s, CHOOSE i \in 1..Len(s) :
                       /\ TimeAt(s, i, suffix).ok
                       /\ \A j \in 1..(i - 1) : ~TimeAt(s, j, suffix).ok,
                suffix)
    ELSE NoMatch

\* re.search(timeRegex, s)
SearchTime(s) == SearchTimeWith(s, "")
\* re.search of the pattern of line 712
SearchStartTime(s) == SearchTimeWith(s, "[")

\* An int() conversion: ok, or the exception that int() raised.
IntOk(n) == [ok |-> TRUE, n |-> n]
IntBad   == [ok |-> FALSE, n |-> 0]

\* int(s) of a str
IntOfParsed(p) == IF p.int THEN IntOk(p.val.n) ELSE IntBad
IntOfStr(s) == IntOfParsed(ParseNumber(s))

\* int(x) of a data cell: an int is itself, a float is cut toward zero,
\* nan and inf raise, a str is read as a literal.
IntOfCell(c) ==
    CASE c.t = "int"   -> IntOk(c.n)
      [] c.t = "float" -> IntOk(IF c.n < 0 THEN 0 - (Abs(c.n) \div Pow10(c.e))
                                           ELSE c.n \div Pow10(c.e))
      [] c.t = "str"   -> IntOfStr(c.s)
      [] OTHER         -> IntBad

IsLeap(y) == (y % 4 = 0 /\ y % 100 # 0) \/ y % 400 = 0

DaysInMonth(y, m) ==
    CASE m \in {1, 3, 5, 7, 8, 10, 12} -> 31
      [] m \in {4, 6, 9, 11}           -> 30
      [] OTHER                         -> IF IsLeap(y) THEN 29 ELSE 28

\* datetime(y, m, d, h, mn, s, us): the ranges the constructor enforces.
ValidDatetime(y, m, d, h, mn, s, us) ==
    /\ y \in 1..9999 /\ m \in 1..12 /\ d >= 1 /\ d <= DaysInMonth(y, m)
    /\ h \in 0..23 /\ mn \in 0..59 /\ s \in 0..59 /\ us \in 0..999999

Ok(ts)       == [kind |-> "ok", ts |-> ts]
Failed(kind) == [kind |-> kind, ts |-> <<>>]

\* The body of a try block that converts seven values and builds the
\* datetime: any exception inside it is re-raised as the rule's ValueError.
TryDatetime(y, m, d, h, mn, s, us) ==
    IF /\ y.ok /\ m.ok /\ d.ok /\ h.ok /\ mn.ok /\ s.ok /\ us.ok
       /\ ValidDatetime(y.n, m.n, d.n, h.n, mn.n, s.n, us.n)
    THEN Ok(<<y.n, m.n, d.n, h.n, mn.n, s.n, us.n>>)
    ELSE Failed("ValueError")

\* Group k of a match, converted by int(); a failed match has no groups
\* (the AttributeError of None.group).
GroupInt(m, k) == IF m.ok THEN IntOfStr(m.g[k]) ELSE IntBad

\* Lines 368-372: the microsecond digits of a time match.
MatchMicro(ti) ==
    IF ~ti.ok THEN IntBad
    ELSE IntOfStr(millisecondToMicrosecond(
                    IF ti.g[4] # "" THEN Tail(ti.g[4]) ELSE "0"))

\* Lines 390-391: `second` and `millisecond` of one cell of the second
\* column: str(x) cut at its first point.
SecondPart(x) == Split(PyStr(x), ".")[1]
MicroPart(x) ==
    IF Contains(PyStr(x), ".")
    THEN IntOfStr(millisecondToMicrosecond(Split(PyStr(x), ".")[2]))
    ELSE IntOk(0)

Zero == IntOk(0)

InData(r, name)    == OdHas(r.data, name)
InHeaders(r, name) == OdHas(r.headers, name)
Column(r, name)    == OdGet(r.data, name)

\* Lines 361-746: the if/elif chain, in the order of the code.  The branch
\* is named by the error message of its except clause.
SelectBranch(r) ==
    IF InData(r, "date") /\ InData(r, "time")
    THEN "date/time"
    ELSE IF /\ InData(r, "year") /\ InData(r, "month") /\ InData(r, "day")
            /\ InData(r, "hour") /\ InData(r, "minute") /\ InData(r, "second")
    THEN "year/month/day/hour/minute/second"
    ELSE IF /\ InData(r, "year") /\ InData(r, "month") /\ InData(r, "day")
            /\ InData(r, "time")
    THEN "year/month/day/time"
    ELSE IF /\ InData(r, "date") /\ InData(r, "hour") /\ InData(r, "minute")
            /\ InData(r, "second")
    THEN "date/hour/minute/second"
    ELSE IF InData(r, "date_time")
    THEN "date_time"
    ELSE IF /\ InData(r, "year") /\ InData(r, "sdy") /\ InData(r, "hour")
            /\ InData(r, "minute") /\ InData(r, "second")
    THEN "year/sdy/hour/minute/second"
    ELSE IF InData(r, "year") /\ InData(r, "sdy") /\ InData(r, "time")
    THEN "year/sdy/time"
    ELSE IF InHeaders(r, "start_date") /\ InData(r, "time")
    THEN "start_date header and time"
    ELSE IF /\ InHeaders(r, "start_date") /\ InData(r, "hour")
            /\ InData(r, "minute") /\ InData(r, "second")
    THEN "start_date header and hour/minute/second"
    ELSE IF /\ InData(r, "year") /\ InData(r, "month") /\ InData(r, "day")
            /\ InData(r, "hour") /\ InData(r, "minute")
    THEN "year/month/day/hour/minute"
    ELSE IF InData(r, "date") /\ InData(r, "hour") /\ InData(r, "minute")
    THEN "date/hour/minute"
    ELSE IF /\ InData(r, "year") /\ InData(r, "sdy") /\ InData(r, "hour")
            /\ InData(r, "minute")
    THEN "year/sdy/hour/minute"
    ELSE IF /\ InData(r, "year") /\ InData(r, "month") /\ InData(r, "day")
            /\ InData(r, "hour")
    THEN "year/month/day/hour"
    ELSE IF InData(r, "date") /\ InData(r, "hour")
    THEN "date/hour"
    ELSE IF InData(r, "year") /\ InData(r, "sdy") /\ InData(r, "hour")
    THEN "year/sdy/hour"
    ELSE IF InData(r, "year") /\ InData(r, "month") /\ InData(r, "day")
    THEN "year/month/day"
    ELSE IF InData(r, "date")
    THEN "date"
    ELSE IF InData(r, "year") /\ InData(r, "sdy")
    THEN "year/sdy"
    ELSE IF InHeaders(r, "start_date") /\ InHeaders(r, "start_time")
    THEN "/start_date and /start_time headers"
    ELSE IF InHeaders(r, "start_date")
    THEN "/start_date header"
    ELSE "none"

\* The columns a branch zips: its loop runs over the shortest of them.
ZippedColumns(branch) ==
    CASE branch = "date/time" -> {"date", "time"}
      [] branch = "year/month/day/hour/minute/second" ->
            {"year", "month", "day", "hour", "minute", "second"}
      [] branch = "year/month/day/time" -> {"year", "month", "day", "time"}
      [] branch = "date/hour/minute/second" -> {"date", "hour", "minute", "second"}
      [] branch = "date_time" -> {"date_time"}
      [] branch = "year/sdy/hour/minute/second" ->
            {"year", "sdy", "hour", "minute", "second"}
      [] branch = "year/sdy/time" -> {"year", "sdy", "time"}
      [] branch = "start_date header and time" -> {"time"}
      [] branch = "start_date header and hour/minute/second" ->
            {"hour", "minute", "second"}
      [] branch = "year/month/day/hour/minute" ->
            {"year", "month", "day", "hour", "minute"}
      [] branch = "date/hour/minute" -> {"date", "hour", "minute"}
      [] branch = "year/sdy/hour/minute" -> {"year", "sdy", "hour", "minute"}
      [] branch = "year/month/day/hour" -> {"year", "month", "day", "hour"}
      [] branch = "date/hour" -> {"date", "hour"}
      [] branch = "year/sdy/hour" -> {"year", "sdy", "hour"}
      [] branch = "year/month/day" -> {"year", "month", "day"}
      [] branch = "date" -> {"date"}
      [] branch = "year/sdy" -> {"year", "sdy"}
      [] OTHER -> {}

\* Turns with the header branches making one timestamp, not one per row.
TurnsOnce(r, branch) ==
    IF ZippedColumns(branch) = {} THEN 1
    ELSE CHOOSE n \in 0..r.length * (Len(r.data) + 1) :
           /\ \A c \in ZippedColumns(branch) : n <= Len(Column(r, c))
           /\ \E c \in ZippedColumns(branch) : n = Len(Column(r, c))

\* The number of turns of the branch's loop: the length of the shortest
\* zipped column, or self.length for range(self.length).
Turns(r, branch) ==
    IF ZippedColumns(branch) = {} THEN r.length
    ELSE CHOOSE n \in 0..r.length * (Len(r.data) + 1) :
           /\ \A c \in ZippedColumns(branch) : n <= Len(Column(r, c))
           /\ \E c \in ZippedColumns(branch) : n = Len(Column(r, c))

\* doy2mndy is a function local to __init__ (lines 127-139): the name is
\* not in scope in fd_datetime, and the call raises NameError outside the
\* try block.
DoyCall == Failed("NameError")

\* One turn of the loop of a branch: the datetime appended, or the
\* exception that leaves the loop.  The arguments are the values the turn
\* reads: the cells of the row converted by int(), and the matches of the
\* date and time patterns on the cells (da, ti) and on the headers (hda,
\* hti).  re.search on a cell that is not a str raises TypeError, and does
\* so outside the try block.
BranchOutcome(branch, timeIsStr, year, month, day, hour, minute, sec, us, da, ti, hda, hti) ==
    CASE branch = "date/time" ->
               IF ~timeIsStr THEN Failed("TypeError")
               ELSE TryDatetime(GroupInt(da, 1), GroupInt(da, 2), GroupInt(da, 3),
                                GroupInt(ti, 1), GroupInt(ti, 2), GroupInt(ti, 3),
                                MatchMicro(ti))
          [] branch = "year/month/day/hour/minute/second" ->
               TryDatetime(year, month, day,
                           hour, minute, sec, us)
          [] branch = "year/month/day/time" ->
               IF ~timeIsStr THEN Failed("TypeError")
               ELSE TryDatetime(year, month, day,
                                GroupInt(ti, 1), GroupInt(ti, 2), GroupInt(ti, 3),
                                MatchMicro(ti))
          [] branch = "date/hour/minute/second" ->
               TryDatetime(GroupInt(da, 1), GroupInt(da, 2), GroupInt(da, 3),
                           hour, minute, sec, us)
          [] branch \in {"year/sdy/hour/minute/second", "year/sdy/time",
                         "year/sdy/hour/minute", "year/sdy/hour", "year/sdy"} ->
               DoyCall
          \* Lines 519-536: the two patterns are swapped; the date pattern
          \* has no group 4, so ti.group(4) raises inside the try block
          \* whether or not the cell matched.
          [] branch = "start_date header and time" ->
               IF ~timeIsStr THEN Failed("TypeError")
               ELSE Failed("ValueError")
          [] branch = "start_date header and hour/minute/second" ->
               TryDatetime(GroupInt(hda, 1), GroupInt(hda, 2), GroupInt(hda, 3),
                           hour, minute, sec, us)
          [] branch = "year/month/day/hour/minute" ->
               TryDatetime(year, month, day,
                           hour, minute, Zero, Zero)
          [] branch = "date/hour/minute" ->
               TryDatetime(GroupInt(da, 1), GroupInt(da, 2), GroupInt(da, 3),
                           hour, minute, Zero, Zero)
          [] branch = "year/month/day/hour" ->
               TryDatetime(year, month, day,
                           hour, Zero, Zero, Zero)
          [] branch = "date/hour" ->
               TryDatetime(GroupInt(da, 1), GroupInt(da, 2), GroupInt(da, 3),
                           hour, Zero, Zero, Zero)
          [] branch = "year/month/day" ->
               TryDatetime(year, month, day,
                           Zero, Zero, Zero, Zero)
          \* Line 680: zip() of one list yields 1-tuples, and re.search on
          \* a tuple raises TypeError.
          [] branch = "date" -> Failed("TypeError")
          [] branch = "/start_date and /start_time headers" ->
               TryDatetime(GroupInt(hda, 1), GroupInt(hda, 2), GroupInt(hda, 3),
                           GroupInt(hti, 1), GroupInt(hti, 2), GroupInt(hti, 3),
                           MatchMicro(hti))
          [] branch = "/start_date header" ->
               TryDatetime(GroupInt(hda, 1), GroupInt(hda, 2), GroupInt(hda, 3),
                           Zero, Zero, Zero, Zero)
          [] OTHER -> Failed("ValueError")

Cell(r, name, i) == Column(r, name)[i]

\* Row i of the loop of a branch.
RowOutcome(r, branch, i) ==
    BranchOutcome(branch,
                  Cell(r, "time", i).t = "str",
                  IntOfCell(Cell(r, "year", i)),
                  IntOfCell(Cell(r, "month", i)),
                  IntOfCell(Cell(r, "day", i)),
                  IntOfCell(Cell(r, "hour", i)),
                  IntOfCell(Cell(r, "minute", i)),
                  IntOfStr(SecondPart(Cell(r, "second", i))),
                  MicroPart(Cell(r, "second", i)),
                  SearchDate(PyStr(Cell(r, "date", i))),
                  SearchTime(Cell(r, "time", i).s),
                  SearchDate(OdGet(r.headers, "start_date")),
                  SearchStartTime(OdGet(r.headers, "start_time")))

\* The outcome of a call: kind "ok" with the list dt returned, or the
\* exception raised; rule is the branch taken and warned tells whether
\* the warning of line 747 was printed.
Outcome(kind, rule, dt, warned) ==
    [kind |-> kind, rule |-> rule, dt |-> dt, warned |-> warned]

\* The loop of a branch over the outcomes of its turns: the first turn
\* that raises ends the call.
LoopOutcome(branch, outs) ==
    IF \A i \in 1..Len(outs) : outs[i].kind = "ok"
    THEN Outcome("ok", branch, [i \in 1..Len(outs) |-> outs[i].ts], FALSE)
    ELSE Outcome(outs[CHOOSE i \in 1..Len(outs) :
                        /\ outs[i].kind # "ok"
                        /\ \A j \in 1..(i - 1) : outs[j].kind = "ok"].kind,
                 branch, <<>>, FALSE)

RunBranch(r, branch) ==
    LoopOutcome(branch, [i \in 1..Turns(r, branch) |-> RowOutcome(r, branch, i)])

\* RunRule that raises where no branch is selected.
RunRuleNoMatchRaises(r, branch) ==
    IF r.length = 0 THEN Outcome("ValueError", "no data", <<>>, FALSE)
    ELSE IF branch = "date_time" THEN Outcome("TypeError", branch, <<>>, FALSE)
    ELSE IF branch = "none" THEN Outcome("ValueError", "none", <<>>, FALSE)
    ELSE RunBranch(r, branch)

\* Lines 352-749, once the branch is selected.
RunRule(r, branch) ==
    IF r.length = 0 THEN Outcome("ValueError", "no data", <<>>, FALSE)
    \* Line 451: self.data('date_time') calls the OrderedDict.
    ELSE IF branch = "date_time" THEN Outcome("TypeError", branch, <<>>, FALSE)
    ELSE IF branch = "none" THEN Outcome("ok", "none", <<>>, TRUE)
    ELSE RunBranch(r, branch)

\* fd_datetime with the six-column branch tested before the date/time branch.
FdDatetimeColumnsFirst(r) ==
    RunRule(r, IF /\ InData(r, "year") /\ InData(r, "month") /\ InData(r, "day")
                  /\ InData(r, "hour") /\ InData(r, "minute") /\ InData(r, "second")
               THEN "year/month/day/hour/minute/second"
               ELSE SelectBranch(r))

\* Lines 352-749
fd_datetime(r) == RunRule(r, SelectBranch(r))

(***************************************************************************)
(* addDataToOutput                                                         *)
(***************************************************************************)

\* n copies of x
Repeat(x, n) == [i \in 1..n |-> x]

\* Lines 758-760: the template column is filled when it is empty.
FillEmptyCol(r) ==
    IF r.empty_col = <<>>
    THEN [r EXCEPT !.empty_col = Repeat(StrCell(PyStr(r.missing)), r.length)]
    ELSE r

\* Lines 763-769: rows appended up to and including irow.
ExtendRows(r, irow) ==
    IF irow >= r.length
    THEN LET fill == Repeat(StrCell(PyStr(r.missing)), irow - r.length + 1)
         IN  [r EXCEPT
                !.length = irow + 1,
                !.empty_col = @ \o fill,
                !.data = [i \in 1..Len(r.data) |->
                            [k |-> r.data[i].k, v |-> r.data[i].v \o fill]]]
    ELSE r

\* DefineColumn that puts the new column before the others.
DefineColumnInFront(r, var_name, units) ==
    IF OdHas(r.data, var_name) THEN r
    ELSE IF ~OdHas(r.headers, "fields") THEN Raise(r, "KeyError")
    ELSE [r EXCEPT
            !.headers = OdSet(@, "fields", OdGet(@, "fields") \o "," \o var_name),
            !.data = <<[k |-> var_name, v |-> r.empty_col]>> \o @]

\* DefineColumn that appends the unit as it was passed, without lower().
DefineColumnKeepsCase(r, var_name, units) ==
    IF OdHas(r.data, var_name) THEN r
    ELSE IF ~OdHas(r.headers, "fields") THEN Raise(r, "KeyError")
    ELSE LET u  == IF units = "" THEN "none" ELSE units
             h1 == OdSet(r.headers, "fields",
                         OdGet(r.headers, "fields") \o "," \o var_name)
             h2 == IF OdHas(h1, "units")
                   THEN OdSet(h1, "units", OdGet(h1, "units") \o "," \o u)
                   ELSE h1
         IN  [r EXCEPT
                !.headers = h2,
                !.warnings = IF OdHas(h1, "units") THEN @
                             ELSE @ \cup {"no units in header"},
                !.data = Append(@, [k |-> var_name, v |-> r.empty_col])]

\* Lines 778-784: a new field name is added to the headers and gets a copy
\* of the template column.  Reading a fields header that is not there
\* raises KeyError; a missing units header only prints a warning.
DefineColumn(r, var_name, units) ==
    IF OdHas(r.data, var_name) THEN r
    ELSE IF ~OdHas(r.headers, "fields") THEN Raise(r, "KeyError")
    ELSE LET u  == IF units = "" THEN "none" ELSE units
             h1 == OdSet(r.headers, "fields",
                         OdGet(r.headers, "fields") \o "," \o var_name)
             h2 == IF OdHas(h1, "units")
                   THEN OdSet(h1, "units", OdGet(h1, "units") \o "," \o Lower(u))
                   ELSE h1
         IN  [r EXCEPT
                !.headers = h2,
                !.warnings = IF OdHas(h1, "units") THEN @
                             ELSE @ \cup {"no units in header"},
                !.data = Append(@, [k |-> var_name, v |-> r.empty_col])]

\* SaveCell that writes the value whatever the cell holds and whatever
\* overwrite is.
SaveCellAlways(r, irow, var_name, var_value, overwrite) ==
    IF irow + 1 \in DOMAIN Column(r, var_name)
    THEN [r EXCEPT !.data[OdIdx(r.data, var_name)].v[irow + 1] = var_value]
    ELSE Raise(r, "IndexError")

\* Lines 787-798: is_number is a function local to __init__ (lines 97-109);
\* the name is not in scope here, and looking it up raises NameError
\* before the cell is read or written.
SaveCell(r, irow, var_name, var_value, overwrite) == Raise(r, "NameError")

\* Lines 753-800
addDataToOutput(r, irow, var_name, units, var_value, overwrite) ==
    LET r1 == ExtendRows(FillEmptyCol(r), irow)
        r2 == DefineColumn(r1, var_name, units)
        v  == IF Truthy(var_value) THEN var_value ELSE StrCell(PyStr(r.missing))
    IN  OrElse(r2, SaveCell(r2, irow, var_name, v, overwrite))

(***************************************************************************)
(* writeSBfile                                                             *)
(***************************************************************************)

\* The file written so far and the local delim of the call; err names the
\* exception that ended the call, "" if none.
NewWriter == [lines |-> <<>>, delim |-> "", delim_bound |-> FALSE, err |-> ""]

\* Lines 816-823: /begin_header, one line per header in the order of the
\* dict, one line per comment, /end_header.
WriteHeader(r, w) ==
    [w EXCEPT !.lines =
        <<"/begin_header">>
        \o [i \in 1..Len(r.headers) |-> "/" \o r.headers[i].k \o "=" \o r.headers[i].v]
        \o [i \in 1..Len(r.comments) |-> "!" \o r.comments[i]]
        \o <<"/end_header">>]

\* Lines 825-830: the value of the delimiter header is tested as it was
\* read, without lower(); where no test succeeds delim stays unbound.
WriteDelimiter(r, w) ==
    IF ~OdHas(r.headers, "delimiter") THEN [w EXCEPT !.err = "KeyError"]
    ELSE IF Contains(OdGet(r.headers, "delimiter"), "comma")
    THEN [w EXCEPT !.delim = ",", !.delim_bound = TRUE]
    ELSE IF Contains(OdGet(r.headers, "delimiter"), "space")
    THEN [w EXCEPT !.delim = " ", !.delim_bound = TRUE]
    ELSE IF Contains(OdGet(r.headers, "delimiter"), "tab")
    THEN [w EXCEPT !.delim = "\t", !.delim_bound = TRUE]
    ELSE w

\* Lines 833-848, one row: is_number is a function local to __init__
\* (lines 97-109), so the test of the first cell raises NameError and no
\* cell is ever appended to row_ls; with no column the empty row is
\* joined, which reads delim.
WriteRow(r, w) ==
    IF Len(r.data) > 0 THEN [w EXCEPT !.err = "NameError"]
    ELSE IF ~w.delim_bound THEN [w EXCEPT !.err = "UnboundLocalError"]
    ELSE [w EXCEPT !.lines = Append(@, "")]

\* Lines 832-848: the rows from index i on.
RECURSIVE WriteRows(_, _, _)
WriteRows(r, w, i) ==
    IF w.err # "" \/ i >= r.length THEN w
    ELSE WriteRows(r, WriteRow(r, w), i + 1)

\* Lines 804-852
writeSBfile(r) ==
    WriteRows(r, WriteDelimiter(r, WriteHeader(r, NewWriter)), 0)

(***************************************************************************)
(* The state machine: one file is read by the constructor, and the object  *)
(* it returns is then used by any sequence of calls.                       *)
(***************************************************************************)

VARIABLES
    file,   \* the lines of the file named by filename
    opt,    \* the keyword arguments of the constructor
    pc,     \* "new": not yet read; "ready": constructed; "failed": the constructor raised
    self,   \* the attributes of the object (and the constructor's locals)
    ret,    \* the last call: its name, arguments and outcome
    fout    \* the file written by the last writeSBfile, and the call's local delim

vars == <<file, opt, pc, self, ret, fout>>

Call(op, args, kind, out) == [op |-> op, args |-> args, kind |-> kind, out |-> out]
NoOutcome == Outcome("", "", <<>>, FALSE)

(***************************************************************************)
(* The files and arguments explored.                                       *)
(***************************************************************************)

\* The largest number of data lines of a file.
MaxRows == 2
\* The largest row index passed to addDataToOutput.
MaxIRow == 2

SeqsUpTo(S, n) == UNION {[1..k -> S] : k \in 0..n}

DefaultOpt ==
    [mask_missing |-> TRUE, mask_above_detection_limit |-> TRUE,
     mask_below_detection_limit |-> TRUE, mask_commented_headers |-> TRUE,
     no_warn |-> FALSE]

AllOpts ==
    [mask_missing : BOOLEAN, mask_above_detection_limit : BOOLEAN,
     mask_below_detection_limit : BOOLEAN, mask_commented_headers : BOOLEAN,
     no_warn : {FALSE}]

Run(lines, o) == [lines |-> lines, opt |-> o]

\* Keep the lines whose id is not in drop.
RECURSIVE Without(_, _)
Without(ls, drop) ==
    IF ls = <<>> THEN <<>>
    ELSE (IF Head(ls).id \in drop THEN <<>> ELSE <<Head(ls).l>>)
         \o Without(Tail(ls), drop)

\* Family A: a measurement file with the three sentinels, with one or two
\* of its header lines left out, and data lines that hold sentinel tokens,
\* too few tokens and too many.
HeaderA ==
    << [id |-> "begin",     l |-> "/begin_header"],
       [id |-> "pi",        l |-> "/investigators=Ann_Lee,Bo_Chen"],
       [id |-> "fields",    l |-> "/fields=date,time,chl"],
       [id |-> "units",     l |-> "/units=yyyymmdd,hh:mm:ss,mg/m^3"],
       [id |-> "missing",   l |-> "/missing=-999"],
       [id |-> "adl",       l |-> "/above_detection_limit=-888"],
       [id |-> "bdl",       l |-> "/below_detection_limit=-777"],
       [id |-> "delimiter", l |-> "/delimiter=comma"],
       [id |-> "comment",   l |-> "! bottle samples"],
       [id |-> "change",    l |-> "!/missing=-9"],
       [id |-> "end",       l |-> "/end_header"] >>

DropsA ==
    {{}, {"fields"}, {"units"}, {"missing"}, {"delimiter"}, {"adl"}, {"bdl"},
     {"adl", "bdl"}}

RowsA ==
    {"20230615,12:00:00,-999",
     "20230615,12:30:45.5,-888",
     "20200229,1:02:03.25,-777.0",
     "20230615,-999,3",
     "20230615,12:00:00",
     "20230615,12:00:00,1.5,7"}

FamilyA ==
    {Run(Without(HeaderA, d) \o rows, o) :
        d \in DropsA, rows \in SeqsUpTo(RowsA, MaxRows), o \in AllOpts}

\* Family T: every set of the temporal field names, with and without the
\* two date headers; the date and time columns disagree with the
\* year ... second columns.
TemporalNames ==
    <<"date", "time", "year", "month", "day", "hour", "minute", "second",
      "sdy", "date_time">>

TemporalToken(name) ==
    CASE name = "date"      -> "20230615"
      [] name = "time"      -> "12:30:45.5"
      [] name = "year"      -> "2021"
      [] name = "month"     -> "3"
      [] name = "day"       -> "1"
      [] name = "hour"      -> "4"
      [] name = "minute"    -> "5"
      [] name = "second"    -> "6.25"
      [] name = "sdy"       -> "60"
      [] name = "date_time" -> "2021-03-01 04:05:06"
      [] OTHER              -> "0.5"

\* The names of a sequence that are in the set F, in the order of the sequence.
RECURSIVE Keep(_, _)
Keep(names, F) ==
    IF names = <<>> THEN <<>>
    ELSE (IF Head(names) \in F THEN <<Head(names)>> ELSE <<>>) \o Keep(Tail(names), F)

Range(f) == {f[i] : i \in DOMAIN f}

FileT(F, hdrs, k) ==
    LET names == Keep(TemporalNames, F) \o <<"chl">>
    IN  <<"/begin_header", "/fields=" \o Join(",", names), "/missing=-999",
          "/delimiter=comma">>
        \o hdrs
        \o <<"/end_header">>
        \o Repeat(Join(",", [i \in 1..Len(names) |-> TemporalToken(names[i])]), k)

DateHeaders ==
    {<<>>, <<"/start_date=20200229">>, <<"/start_time=01:02:03.5[GMT]">>,
     <<"/start_date=20200229", "/start_time=01:02:03.5[GMT]">>}

FamilyT ==
    {Run(FileT(F, h, k), DefaultOpt) :
        F \in SUBSET Range(TemporalNames), h \in DateHeaders, k \in 0..MaxRows}

\* Family H: no temporal column; date headers that the patterns of the
\* header branches match and that they do not match.
FamilyH ==
    {Run(FileT({}, h, k), DefaultOpt) :
        h \in {<<"/start_date=20200229", "/start_time=1:02:03[gmt]">>,
               <<"/start_date=20200229", "/start_time=01:02:03">>,
               <<"/start_date=20210229", "/start_time=01:02:03[GMT]">>,
               <<"/start_date=2020-02-29">>,
               <<"/start_date=20210229">>},
        k \in 0..MaxRows}

\* Family F: time strings with no and with one to seven fraction digits.
TimesF ==
    {"12:30:45", "12:30:45.5", "1:02:03.25", "23:59:59.125", "0:00:00.0625",
     "12:30:45.00001", "12:30:45.999999", "12:30:45.1234567", "12:30"}

FamilyF ==
    {Run(<<"/begin_header", "/fields=" \o f[1], "/missing=-999",
           "/delimiter=comma", "/end_header">>
         \o [i \in 1..Len(ts) |-> f[2] \o ts[i]], DefaultOpt) :
        f \in {<<"date,time", "20230615,">>, <<"year,month,day,time", "2023,6,15,">>},
        ts \in SeqsUpTo(TimesF, MaxRows)}

\* Family S: the four rules that read a second column, over cells of the
\* second column with no fraction and with fractions of two to six digits.
SecondsS == {"6", "6.25", "0.0625", "59.999999", "0.00001"}

FamilyS ==
    {Run(<<"/begin_header", "/fields=" \o f[1] \o ",second", "/missing=-999",
           "/delimiter=comma">>
         \o f[3] \o <<"/end_header">>
         \o [i \in 1..Len(ss) |-> f[2] \o "," \o ss[i]], DefaultOpt) :
        f \in {<<"year,month,day,hour,minute", "2021,3,1,4,5", <<>>>>,
               <<"date,hour,minute", "20230615,4,5", <<>>>>,
               <<"year,sdy,hour,minute", "2021,60,4,5", <<>>>>,
               <<"hour,minute", "4,5", <<"/start_date=20200229">>>>},
        ss \in SeqsUpTo(SecondsS, MaxRows)}

\* The files of the reconstruction of timestamps.
RunsTime == FamilyT \cup FamilyH \cup FamilyF \cup FamilyS

\* The runs whose object is then modified: the full header and the header
\* without units, with rows of the right length and a short row.
RunsMut ==
    {Run(Without(HeaderA, d) \o rows, DefaultOpt) :
        d \in {{}, {"units"}},
        rows \in SeqsUpTo({"20230615,12:00:00,-999", "20230615,12:30:45.5,3",
                           "20230615,12:00:00"}, MaxRows)}

\* The /delimiter values the reader accepts, each with the character that
\* separates the tokens of a data line.
DelimitersW ==
    {<<"comma", ",">>, <<"space", " ">>, <<"tab", "\t">>,
     <<"COMMA", ",">>, <<"Space", " ">>, <<"TAB", "\t">>}

\* The rows of family W, as tokens: a text cell, the missing tokens, an
\* integer and a float.
RowsW ==
    {<<"Nantucket", "3">>, <<"A1", "-999">>, <<"B2", "1.5">>, <<"C3", "0">>}

\* The /missing values of family W.
MissingW == {"-999", "0"}

\* Family W: the files that are read and written back.  The header holds
\* the directives in lower case followed by one comment; the rows are
\* separated by one delimiter character.
FamilyW ==
    {Run(<<"/begin_header", "/fields=station,chl", "/units=none,mg/m^3",
           "/missing=" \o m, "/delimiter=" \o d[1], "! bottle samples",
           "/end_header">>
         \o [i \in 1..Len(rows) |-> Join(d[2], rows[i])], DefaultOpt) :
        d \in DelimitersW, rows \in SeqsUpTo(RowsW, MaxRows), m \in MissingW}

\* The header of family C: directives, two comments, a commented
\* directive, two directives whose value holds an exclamation mark, and
\* two lines without an equals sign.
HeaderC ==
    << [id |-> "begin",     l |-> "/begin_header"],
       [id |-> "first",     l |-> "! first comment"],
       [id |-> "fields",    l |-> "/fields=station,chl"],
       [id |-> "station",   l |-> "/station=A!B"],
       [id |-> "changed",   l |-> "!/missing=-9"],
       [id |-> "missing",   l |-> "/missing=-999"],
       [id |-> "cruise",    l |-> "/cruise=c1 !/leg2"],
       [id |-> "bare",      l |-> "/water_depth 25"],
       [id |-> "marked",    l |-> "/wind 5 m/s!"],
       [id |-> "twice",     l |-> "/Cloud_Percent=a=b"],
       [id |-> "delimiter", l |-> "/delimiter=comma"],
       [id |-> "second",    l |-> "!second comment"],
       [id |-> "end",       l |-> "/end_header"] >>

\* Family C: the header with any of its comments and marked directives
\* left out, no row or one row (one of them with an exclamation mark, one
\* with the text of a directive), read with and without
\* mask_commented_headers.
FamilyC ==
    {Run(Without(HeaderC, d) \o rows,
         [DefaultOpt EXCEPT !.mask_commented_headers = b]) :
        d \in SUBSET {"first", "station", "changed", "cruise", "second",
                      "bare", "marked", "twice"},
        rows \in {<<>>, <<"A1,3">>, <<"B!,2">>, <<"C3,/missing=5">>},
        b \in BOOLEAN}

(***************************************************************************)
(* Actions                                                                 *)
(***************************************************************************)

InitWith(runs) ==
    /\ \E run \in runs : file = run.lines /\ opt = run.opt
    /\ pc = "new"
    /\ self = NewReader
    /\ ret = Call("", <<>>, "", NoOutcome)
    /\ fout = NewWriter

\* readSB(filename, ...): the constructor returns the object or raises.
Construct ==
    /\ pc = "new"
    /\ self' = ReadSB(file, opt)
    /\ pc' = IF self'.err = "" THEN "ready" ELSE "failed"
    /\ ret' = Call("readSB", <<>>, self'.err, NoOutcome)
    /\ UNCHANGED <<file, opt, fout>>

\* FdDatetime that keeps the timestamps on the object, as a column.
FdDatetimeCaching ==
    /\ pc = "ready"
    /\ LET out == fd_datetime(self)
       IN  /\ ret' = Call("fd_datetime", <<>>, out.kind, out)
           /\ self' = [self EXCEPT !.data = OdSet(@, "datetime", out.dt)]
    /\ UNCHANGED <<file, opt, pc, fout>>

\* self.fd_datetime()
FdDatetime ==
    /\ pc = "ready"
    /\ LET out == fd_datetime(self)
       IN  ret' = Call("fd_datetime", <<>>, out.kind, out)
    /\ UNCHANGED <<file, opt, pc, self, fout>>

NewNames  == {"chl", "SST"}
UnitsArgs == {"", "degC"}
ValueArgs == {StrCell(""), IntCell(0), IntCell(5)}

\* self.addDataToOutput(irow, var_name, units, var_value, overwrite).  An
\* exception leaves the object as the call had changed it so far.
AddDataToOutput ==
    /\ pc = "ready"
    /\ \E irow \in 0..MaxIRow, var_name \in NewNames, units \in UnitsArgs,
          var_value \in ValueArgs, overwrite \in BOOLEAN :
          LET r == addDataToOutput([self EXCEPT !.err = ""], irow, var_name,
                                   units, var_value, overwrite)
          IN  /\ self' = [r EXCEPT !.err = ""]
              /\ ret' = Call("addDataToOutput",
                             <<irow, var_name, units, var_value, overwrite>>,
                             r.err, NoOutcome)
    /\ UNCHANGED <<file, opt, pc, fout>>

\* self.writeSBfile(ofile): the file is opened anew by each call.
WriteSBfile ==
    /\ pc = "ready"
    /\ fout' = writeSBfile(self)
    /\ ret' = Call("writeSBfile", <<>>, fout'.err, NoOutcome)
    /\ UNCHANGED <<file, opt, pc, self>>

Init      == InitWith(RunsMut)
InitParse == InitWith(FamilyA)
InitTime  == InitWith(RunsTime)
InitWrite == InitWith(FamilyW)
InitComments == InitWith(FamilyC)

Next      == Construct \/ FdDatetime \/ AddDataToOutput \/ WriteSBfile
NextRead  == Construct \/ FdDatetime
NextWrite == Construct \/ WriteSBfile

\* The object and every call on it.
Spec     == Init /\ [][Next]_vars
\* The reader and fd_datetime over the measurement files of family A.
SpecParse == InitParse /\ [][NextRead]_vars
\* The reader and fd_datetime over the files of the temporal families.
SpecTime  == InitTime /\ [][NextRead]_vars
\* The reader and writeSBfile over the files of family W.
SpecWrite == InitWrite /\ [][NextWrite]_vars
\* The reader and fd_datetime over the files of family C.
SpecComments == InitComments /\ [][NextRead]_vars

(***************************************************************************)
(* Properties.  They read the file, the object and the last call; what a   *)
(* property expects is computed here from the lines of the file, apart     *)
(* from the operators of the reader.                                       *)
(***************************************************************************)

\* The position of the first line from line i on that holds /end_header,
\* 0 if none.
RECURSIVE EndHeaderFrom(_, _)
EndHeaderFrom(f, i) ==
    IF i > Len(f) THEN 0
    ELSE IF Contains(Lower(f[i]), "/end_header") THEN i
    ELSE EndHeaderFrom(f, i + 1)

EndHeaderAt(f) == EndHeaderFrom(f, 1)

\* The non-empty lines after line n.
LinesAfter(f, n) ==
    IF n = 0 THEN <<>> ELSE SelectSeq(SubSeq(f, n + 1, Len(f)), LAMBDA l : l # "")

\* The non-empty lines after the header.
DataLines(f) == LinesAfter(f, EndHeaderAt(f))

\* The header holds a directive of this key.
HasDirective(f, key) ==
    \E i \in 1..EndHeaderAt(f) : IsDirective(f[i], Lower(f[i]), key)

\* The tokens of a data line, by the delimiter of the header.
Tokens(l) == ReSplit(self.delim, l)

\* The tokens of each data line of the file.
TokenRowsOf(lines) == [k \in 1..Len(lines) |-> Tokens(lines[k])]
TokenRows == TokenRowsOf(DataLines(file))

\* The tokens at position j of the rows that have one.
AtPosition(rows, j) == [k \in 1..Len(rows) |-> rows[k][j]]
ColumnTokens(rows, j) == AtPosition(SelectSeq(rows, LAMBDA r : Len(r) >= j), j)

\* Two finite numbers of the same value.
SameNumber(a, b) ==
    /\ a.t \in {"int", "float"} /\ b.t \in {"int", "float"}
    /\ a.n = b.n /\ a.e = b.e

\* The sentinels that the header set and whose flag is enabled.
EnabledSentinels ==
    (IF opt.mask_missing THEN {self.missing} ELSE {})
    \cup (IF opt.mask_above_detection_limit /\ self.adl # Unset
          THEN {self.adl} ELSE {})
    \cup (IF opt.mask_below_detection_limit /\ self.bdl # Unset
          THEN {self.bdl} ELSE {})

\* The cell a token is expected to be stored as; p is the token read as a
\* number.
ExpectedOf(tok, p) ==
    IF ~p.ok THEN StrCell(tok)
    ELSE IF \E s \in EnabledSentinels : SameNumber(p.val, s) THEN NaN
    ELSE p.val

ExpectedCell(tok) == ExpectedOf(tok, ParseNumber(tok))
ExpectedColumn(toks) == [k \in 1..Len(toks) |-> ExpectedCell(toks[k])]

\* Every column holds the expected cells of its tokens.
ColumnsAsExpected(rows) ==
    \A j \in 1..Len(self.vars) :
        OdGet(self.data, self.vars[j]) = ExpectedColumn(ColumnTokens(rows, j))

\* A cell of a finite numeric token is not-a-number exactly if the token
\* equals a sentinel that is set and enabled.
MaskedBySet(cell, p) ==
    (p.ok /\ p.val.t \in {"int", "float"}) =>
        ((cell = NaN) <=> \E s \in {self.missing, self.adl, self.bdl} :
                             /\ s # Unset
                             /\ s \in EnabledSentinels
                             /\ SameNumber(p.val, s))

CellsMaskedBySet(col, toks) ==
    \A k \in 1..Len(toks) : MaskedBySet(col[k], ParseNumber(toks[k]))

OnlySetSentinelsMask(rows) ==
    \A j \in 1..Len(self.vars) :
        CellsMaskedBySet(OdGet(self.data, self.vars[j]), ColumnTokens(rows, j))

\* C1: after the constructor and after any sequence of addDataToOutput
\* calls, every column of data has exactly `length` entries.
C1_ColumnLengths ==
    pc = "ready" => \A i \in 1..Len(self.data) : Len(self.data[i].v) = self.length

\* C2: a data line whose number of tokens differs from the number of
\* fields makes the constructor fail with a RowArityMismatch error.
C2_RowArityMismatch ==
    (/\ pc # "new"
     /\ HasDirective(file, "/delimiter=") /\ HasDirective(file, "/missing=")
     /\ HasDirective(file, "/fields=")
     /\ \E k \in 1..Len(TokenRows) : Len(TokenRows[k]) # Len(self.vars))
    => (pc = "failed" /\ self.err = "RowArityMismatch")

\* C3: for every numeric token and every combination of the three masking
\* flags, the stored cell is not-a-number if the token equals a sentinel of
\* the header whose flag is enabled, and the coerced value of the token
\* (int, else float, else the text) otherwise.
C3_Masking ==
    pc = "ready" => ColumnsAsExpected(TokenRows)

\* C3 witness: with mask_missing off and the above-limit flag on, one file
\* stores the missing token -999 as the int and the above-limit token -888
\* as not-a-number.
C3_Witness ==
    /\ pc = "ready"
    /\ ~opt.mask_missing /\ opt.mask_above_detection_limit
    /\ OdHas(self.data, "chl")
    /\ OdGet(self.data, "chl") = <<IntCell(-999), NaN>>
    /\ ColumnTokens(TokenRows, 3) = <<"-999", "-888">>

\* C4: a cell is masked only against a sentinel the header set, and where
\* a detection limit is absent from the header each numeric token equal to
\* another sentinel that is set and enabled is still stored as
\* not-a-number.
C4_SentinelIndependence ==
    (pc = "ready" /\ (self.adl = Unset \/ self.bdl = Unset))
        => OnlySetSentinelsMask(TokenRows)

\* C4 witness: the header has no above-limit sentinel; the token -888 is
\* stored as the int, the below-limit token -777.0 as not-a-number.
C4_Witness ==
    /\ pc = "ready"
    /\ self.adl = Unset /\ self.bdl # Unset
    /\ opt.mask_above_detection_limit /\ opt.mask_below_detection_limit
    /\ OdHas(self.data, "chl")
    /\ OdGet(self.data, "chl") = <<IntCell(-888), NaN>>
    /\ ColumnTokens(TokenRows, 3) = <<"-888", "-777.0">>

\* C5: at /end_header the constructor fails with MissingDelimiter if the
\* header has no /delimiter directive, with MissingSentinel if it has no
\* /missing directive and with MissingFields if it has no /fields
\* directive, and no data line is decoded.
C5_MissingDescriptor ==
    (pc # "new" /\ EndHeaderAt(file) > 0) =>
        /\ ~HasDirective(file, "/delimiter=")
              => (pc = "failed" /\ self.err = "MissingDelimiter" /\ self.length = 0)
        /\ (HasDirective(file, "/delimiter=") /\ ~HasDirective(file, "/missing="))
              => (pc = "failed" /\ self.err = "MissingSentinel" /\ self.length = 0)
        /\ (/\ HasDirective(file, "/delimiter=") /\ HasDirective(file, "/missing=")
            /\ ~HasDirective(file, "/fields="))
              => (pc = "failed" /\ self.err = "MissingFields" /\ self.length = 0)

\* The priority table of the reconstruction of timestamps, highest first:
\* the columns and the headers each rule requires.
PriorityTable ==
    << [rule |-> "date/time", cols |-> {"date", "time"}, hdrs |-> {}],
       [rule |-> "year/month/day/hour/minute/second",
        cols |-> {"year", "month", "day", "hour", "minute", "second"}, hdrs |-> {}],
       [rule |-> "year/month/day/time",
        cols |-> {"year", "month", "day", "time"}, hdrs |-> {}],
       [rule |-> "date/hour/minute/second",
        cols |-> {"date", "hour", "minute", "second"}, hdrs |-> {}],
       [rule |-> "date_time", cols |-> {"date_time"}, hdrs |-> {}],
       [rule |-> "year/sdy/hour/minute/second",
        cols |-> {"year", "sdy", "hour", "minute", "second"}, hdrs |-> {}],
       [rule |-> "year/sdy/time", cols |-> {"year", "sdy", "time"}, hdrs |-> {}],
       [rule |-> "start_date header and time",
        cols |-> {"time"}, hdrs |-> {"start_date"}],
       [rule |-> "start_date header and hour/minute/second",
        cols |-> {"hour", "minute", "second"}, hdrs |-> {"start_date"}],
       [rule |-> "year/month/day/hour/minute",
        cols |-> {"year", "month", "day", "hour", "minute"}, hdrs |-> {}],
       [rule |-> "date/hour/minute", cols |-> {"date", "hour", "minute"}, hdrs |-> {}],
       [rule |-> "year/sdy/hour/minute",
        cols |-> {"year", "sdy", "hour", "minute"}, hdrs |-> {}],
       [rule |-> "year/month/day/hour",
        cols |-> {"year", "month", "day", "hour"}, hdrs |-> {}],
       [rule |-> "date/hour", cols |-> {"date", "hour"}, hdrs |-> {}],
       [rule |-> "year/sdy/hour", cols |-> {"year", "sdy", "hour"}, hdrs |-> {}],
       [rule |-> "year/month/day", cols |-> {"year", "month", "day"}, hdrs |-> {}],
       [rule |-> "date", cols |-> {"date"}, hdrs |-> {}],
       [rule |-> "year/sdy", cols |-> {"year", "sdy"}, hdrs |-> {}],
       [rule |-> "/start_date and /start_time headers",
        cols |-> {}, hdrs |-> {"start_date", "start_time"}],
       [rule |-> "/start_date header", cols |-> {}, hdrs |-> {"start_date"}] >>

ColumnNames == {self.data[i].k : i \in 1..Len(self.data)}
HeaderNames == {self.headers[i].k : i \in 1..Len(self.headers)}

\* The first rule of the table whose columns and headers are all present.
FirstOf(cols, hdrs) ==
    IF \E i \in 1..Len(PriorityTable) :
          PriorityTable[i].cols \subseteq cols /\ PriorityTable[i].hdrs \subseteq hdrs
    THEN PriorityTable[CHOOSE i \in 1..Len(PriorityTable) :
           /\ PriorityTable[i].cols \subseteq cols
           /\ PriorityTable[i].hdrs \subseteq hdrs
           /\ \A j \in 1..(i - 1) :
                 ~(PriorityTable[j].cols \subseteq cols
                   /\ PriorityTable[j].hdrs \subseteq hdrs)].rule
    ELSE "none"

FirstMatch == FirstOf(ColumnNames, HeaderNames)

\* The date of a timestamp <<year, month, day, hour, minute, second,
\* microsecond>> as the number yyyymmdd.
DateNumber(ts) == ts[1] * 10000 + ts[2] * 100 + ts[3]

HeaderRules == {"/start_date and /start_time headers", "/start_date header"}

\* A /start_date value: eight digits that name a day of the calendar.
WellFormedDate(v) ==
    /\ Len(v) = 8 /\ AllDigits(v)
    /\ ValidDatetime(DigitsToInt(SubSeq(v, 1, 4)), DigitsToInt(SubSeq(v, 5, 6)),
                     DigitsToInt(SubSeq(v, 7, 8)), 0, 0, 0, 0)

\* The clock of a /start_time value H:MM:SS[.f] as <<H, MM, <<SS, f>>>>.
ClockParts(clock) ==
    IF Len(Split(clock, ":")) # 3 THEN <<>>
    ELSE <<Split(clock, ":")[1], Split(clock, ":")[2], Split(Split(clock, ":")[3], ".")>>

WellFormedClock(p) ==
    /\ p # <<>>
    /\ Len(p[1]) \in 1..2 /\ AllDigits(p[1]) /\ DigitsToInt(p[1]) < 24
    /\ Len(p[2]) = 2 /\ AllDigits(p[2]) /\ DigitsToInt(p[2]) < 60
    /\ Len(p[3]) \in 1..2
    /\ Len(p[3][1]) = 2 /\ AllDigits(p[3][1]) /\ DigitsToInt(p[3][1]) < 60
    /\ Len(p[3]) = 2 => (Len(p[3][2]) \in 1..6 /\ AllDigits(p[3][2]))

\* A /start_time value: H:MM:SS or H:MM:SS.f with one to six digits f,
\* followed by [GMT] or [gmt].
WellFormedTime(v) ==
    /\ Len(v) > 5
    /\ SubSeq(v, Len(v) - 4, Len(v)) \in {"[GMT]", "[gmt]"}
    /\ WellFormedClock(ClockParts(SubSeq(v, 1, Len(v) - 5)))

\* The digits f of a fraction as microseconds: f * 10^(6 - len(f)).
ExpectedMicro(f) == IF f = "" THEN 0 ELSE DigitsToInt(f) * Pow10(6 - Len(f))

ClockStamp(p) ==
    <<DigitsToInt(p[1]), DigitsToInt(p[2]), DigitsToInt(p[3][1]),
      ExpectedMicro(IF Len(p[3]) = 2 THEN p[3][2] ELSE "")>>

\* The one timestamp the headers name.
HeaderStamp(rule, sd, st) ==
    <<DigitsToInt(SubSeq(sd, 1, 4)), DigitsToInt(SubSeq(sd, 5, 6)),
      DigitsToInt(SubSeq(sd, 7, 8))>>
    \o (IF rule = "/start_date header" THEN <<0, 0, 0, 0>>
        ELSE ClockStamp(ClockParts(SubSeq(st, 1, Len(st) - 5))))

HeadersWellFormed(rule) ==
    /\ WellFormedDate(OdGet(self.headers, "start_date"))
    /\ rule = "/start_date and /start_time headers"
          => WellFormedTime(OdGet(self.headers, "start_time"))

\* C7: when a header-only rule is selected and the header values are well
\* formed, fd_datetime returns as many timestamps as the object has rows,
\* each of them the one timestamp of the headers.
C7_Broadcast ==
    (/\ ret.op = "fd_datetime"
     /\ ret.out.rule \in HeaderRules
     /\ HeadersWellFormed(ret.out.rule))
    => /\ ret.kind = "ok"
       /\ Len(ret.out.dt) = self.length
       /\ \A i \in 1..Len(ret.out.dt) :
             ret.out.dt[i]
               = HeaderStamp(ret.out.rule, OdGet(self.headers, "start_date"),
                             IF OdHas(self.headers, "start_time")
                             THEN OdGet(self.headers, "start_time") ELSE "")

\* C7 witness: two rows, both headers; two equal timestamps of the headers.
C7_Witness ==
    /\ ret.op = "fd_datetime" /\ ret.kind = "ok"
    /\ ret.out.rule = "/start_date and /start_time headers"
    /\ self.length = 2
    /\ ret.out.dt = << <<2020, 2, 29, 1, 2, 3, 500000>>,
                       <<2020, 2, 29, 1, 2, 3, 500000>> >>

\* C8, as stated: when no rule of the table matches, fd_datetime does not
\* raise; it prints a warning and returns the empty sequence, for any
\* number of rows, zero included.
C8_AnyRowCount ==
    (ret.op = "fd_datetime" /\ FirstMatch = "none")
    => (ret.kind = "ok" /\ ret.out.dt = <<>> /\ ret.out.warned)

\* C8, amended: when no rule of the table matches, fd_datetime on an
\* object with at least one row does not raise, prints a warning and
\* returns the empty sequence; on an object with no row it raises
\* ValueError.
C8_NoRule ==
    (ret.op = "fd_datetime" /\ FirstMatch = "none")
    => IF self.length = 0
       THEN ret.kind = "ValueError" /\ ret.out.dt = <<>> /\ ~ret.out.warned
       ELSE ret.kind = "ok" /\ ret.out.dt = <<>> /\ ret.out.warned

\* C8 witness: two rows, no temporal column and no date header.
C8_Witness ==
    /\ ret.op = "fd_datetime" /\ FirstMatch = "none"
    /\ self.length = 2
    /\ ret.kind = "ok" /\ ret.out.dt = <<>> /\ ret.out.warned

\* C9: when a row of the date/time rule fails a leaf step, here a cell of
\* the time column that is not text, fd_datetime ends with the ValueError
\* that names the rule and returns no timestamps.
C9_LeafFailure ==
    (/\ ret.op = "fd_datetime"
     /\ ret.out.rule = "date/time"
     /\ \E i \in 1..Len(Column(self, "time")) : Column(self, "time")[i].t # "str")
    => (ret.kind = "ValueError" /\ ret.out.dt = <<>>)

\* The digits after the point of a time string, "" if it has no point.
FractionOf(tok) == IF Contains(tok, ".") THEN Split(tok, ".")[2] ELSE ""

\* C10: for every time string with no fraction or with a fraction f of one
\* to six digits, the timestamp of its row has the microsecond
\* f * 10^(6 - len(f)), and 0 where there is no fraction.
C10_Microseconds ==
    (/\ ret.op = "fd_datetime"
     /\ ret.out.rule \in {"date/time", "year/month/day/time"}
     /\ ret.kind = "ok")
    => \A i \in 1..Len(ret.out.dt) :
          Len(FractionOf(Column(self, "time")[i].s)) <= 6
          => ret.out.dt[i][7] = ExpectedMicro(FractionOf(Column(self, "time")[i].s))

\* C10 witness: "12:30:45.5" gives 500000 and "0:00:00.0625" gives 62500.
C10_Witness ==
    /\ ret.op = "fd_datetime" /\ ret.kind = "ok"
    /\ ret.out.rule = "date/time"
    /\ Column(self, "time") = <<StrCell("12:30:45.5"), StrCell("0:00:00.0625")>>
    /\ ret.out.dt[1][7] = 500000
    /\ ret.out.dt[2][7] = 62500

\* The rules that read the year and sdy columns.
SdyRules ==
    {"year/sdy/hour/minute/second", "year/sdy/time", "year/sdy/hour/minute",
     "year/sdy/hour", "year/sdy"}

\* The days of year y before its month m.
RECURSIVE DaysBefore(_, _)
DaysBefore(y, m) == IF m = 1 THEN 0 ELSE DaysBefore(y, m - 1) + DaysInMonth(y, m - 1)

\* The month and day of the doy-th day of year y.
OrdinalDay(y, doy) ==
    CHOOSE md \in (1..12) \X (1..31) :
        /\ md[2] <= DaysInMonth(y, md[1])
        /\ DaysBefore(y, md[1]) + md[2] = doy

\* Row i holds an integer year and an integer day of that year.
OrdinalRow(r, i) ==
    /\ Column(r, "year")[i].t = "int" /\ Column(r, "year")[i].n \in 1..9999
    /\ Column(r, "sdy")[i].t = "int"
    /\ Column(r, "sdy")[i].n \in 1..(IF IsLeap(Column(r, "year")[i].n) THEN 366 ELSE 365)

\* C11: under every rule that reads year and sdy, fd_datetime returns for
\* each row a timestamp whose month and day are those of the sdy-th day of
\* the year, leap years honoured (2021, 60 gives March 1).
C11_OrdinalDay ==
    (/\ ret.op = "fd_datetime"
     /\ ret.out.rule \in SdyRules
     /\ \A i \in 1..self.length : OrdinalRow(self, i))
    => /\ ret.kind = "ok"
       /\ Len(ret.out.dt) = self.length
       /\ \A i \in 1..self.length :
             <<ret.out.dt[i][2], ret.out.dt[i][3]>>
                = OrdinalDay(Column(self, "year")[i].n, Column(self, "sdy")[i].n)

\* The cell stands for the missing sentinel of r: the number itself or its
\* string form.
IsSentinelCell(r, c) == PyEq(c, r.missing) \/ c = StrCell(PyStr(r.missing))

\* The cell stands for missing data: the sentinel, or the not-a-number a
\* masked token is stored as.
IsMissingCell(r, c) == IsSentinelCell(r, c) \/ c.t = "nan"

\* The cell of column name at the row index irow (counted from 0).
CellAt(r, name, irow) == Column(r, name)[irow + 1]

\* The column new is the column old followed by sentinel cells up to the
\* row index irow, the cell at irow itself excepted where it is written.
ExtendedTo(r, old, new, irow, written) ==
    /\ Len(new) = irow + 1
    /\ Len(old) <= Len(new)
    /\ SubSeq(new, 1, Len(old)) = old
    /\ \A j \in (Len(old) + 1)..Len(new) :
          (written /\ j = irow + 1) \/ IsSentinelCell(r, new[j])

\* C12: a call of addDataToOutput with irow at or beyond the row count
\* extends every column with the missing sentinel through irow, makes the
\* row count irow + 1, stores the value in the addressed cell and returns
\* without an exception.
C12_Extension ==
    [][(/\ ret'.op = "addDataToOutput"
        /\ ret'.args[1] >= self.length
        /\ Truthy(ret'.args[4]))
       => /\ ret'.kind = ""
          /\ self'.length = ret'.args[1] + 1
          /\ \A k \in 1..Len(self.data) :
                /\ OdHas(self'.data, self.data[k].k)
                /\ ExtendedTo(self, self.data[k].v, Column(self', self.data[k].k),
                              ret'.args[1], self.data[k].k = ret'.args[2])
          /\ OdHas(self'.data, ret'.args[2])
          /\ Len(Column(self', ret'.args[2])) > ret'.args[1]
          /\ CellAt(self', ret'.args[2], ret'.args[1]) = ret'.args[4]]_vars

\* C13: a call of addDataToOutput with overwrite False on a cell that holds
\* a value other than missing data leaves that cell and every other cell
\* as they were.
C13_KeepsValue ==
    [][(/\ ret'.op = "addDataToOutput"
        /\ ret'.args[5] = FALSE
        /\ ret'.args[1] < self.length
        /\ OdHas(self.data, ret'.args[2])
        /\ ret'.args[1] < Len(Column(self, ret'.args[2]))
        /\ ~IsMissingCell(self, CellAt(self, ret'.args[2], ret'.args[1])))
       => self'.data = self.data]_vars

\* C13 witness: the file has the one row 20230615,12:30:45.5,3 and the last
\* call was addDataToOutput(0, 'chl', 'degC', 5, False); chl still holds 3.
C13_Witness ==
    /\ ret.op = "addDataToOutput"
    /\ ret.args = <<0, "chl", "degC", IntCell(5), FALSE>>
    /\ Len(DataLines(file)) = 1
    /\ self.length = 1
    /\ Column(self, "chl") = <<IntCell(3)>>

\* C14: a call of addDataToOutput with overwrite False on a cell that holds
\* missing data (the sentinel, or the not-a-number of a masked token)
\* stores the value in that cell.
C14_FirstWriteWins ==
    [][(/\ ret'.op = "addDataToOutput"
        /\ ret'.args[5] = FALSE
        /\ Truthy(ret'.args[4])
        /\ ret'.args[1] < self.length
        /\ OdHas(self.data, ret'.args[2])
        /\ ret'.args[1] < Len(Column(self, ret'.args[2]))
        /\ IsMissingCell(self, CellAt(self, ret'.args[2], ret'.args[1])))
       => CellAt(self', ret'.args[2], ret'.args[1]) = ret'.args[4]]_vars

\* C15: a call of addDataToOutput with overwrite True puts the value passed
\* by the caller in the addressed cell, whatever the value (0 and ''
\* included) and whatever the cell held.
C15_Overwrite ==
    [][(/\ ret'.op = "addDataToOutput"
        /\ ret'.args[5] = TRUE)
       => /\ OdHas(self'.data, ret'.args[2])
          /\ Len(Column(self', ret'.args[2])) > ret'.args[1]
          /\ CellAt(self', ret'.args[2], ret'.args[1]) = ret'.args[4]]_vars

\* The object new is the object old with the field name added: the name is
\* appended to the fields header, the text unit to the units header (a
\* warning and no units header where there was none), the column name is
\* the last one and holds the sentinel in each of the rows, and the
\* columns of old are there in the same order with the same cells.
FieldAdded(old, new, name, unit) ==
    /\ OdHas(new.headers, "fields")
    /\ OdGet(new.headers, "fields") = OdGet(old.headers, "fields") \o "," \o name
    /\ IF OdHas(old.headers, "units")
       THEN /\ OdHas(new.headers, "units")
            /\ OdGet(new.headers, "units") = OdGet(old.headers, "units") \o "," \o unit
       ELSE /\ ~OdHas(new.headers, "units")
            /\ "no units in header" \in new.warnings
    /\ OdKeys(new.headers) = OdKeys(old.headers)
    /\ OdKeys(new.data) = Append(OdKeys(old.data), name)
    /\ Len(Column(new, name)) = new.length
    /\ \A j \in 1..new.length : IsSentinelCell(new, Column(new, name)[j])
    /\ \A k \in 1..Len(old.data) :
          /\ Len(old.data[k].v) <= Len(new.data[k].v)
          /\ SubSeq(new.data[k].v, 1, Len(old.data[k].v)) = old.data[k].v

\* C16 as stated: a call of addDataToOutput with a field name that is not
\* a column appends the name to the fields header and the unit passed to
\* the units header (only a warning where there is no units header), and
\* adds a last column of sentinels; the other columns keep cells and order.
C16_NewField ==
    [][(/\ ret'.op = "addDataToOutput"
        /\ ~OdHas(self.data, ret'.args[2]))
       => FieldAdded(self, self', ret'.args[2], ret'.args[3])]_vars

\* C16 amended: the same, the text appended to the units header being the
\* unit in lower case, and 'none' for an empty unit.
C16_NewFieldLowerCase ==
    [][(/\ ret'.op = "addDataToOutput"
        /\ ~OdHas(self.data, ret'.args[2]))
       => FieldAdded(self, self', ret'.args[2],
                     IF ret'.args[3] = "" THEN "none" ELSE Lower(ret'.args[3]))]_vars

\* C16 witness: addDataToOutput(0, 'SST', 'degC', 5, False) on the object
\* read from the one row 20230615,12:30:45.5,3.
C16_Witness ==
    /\ ret.op = "addDataToOutput"
    /\ ret.args = <<0, "SST", "degC", IntCell(5), FALSE>>
    /\ OdHas(self.headers, "units")
    /\ OdGet(self.headers, "fields") = "date,time,chl,SST"
    /\ OdGet(self.headers, "units") = "yyyymmdd,hh:mm:ss,mg/m^3,degc"
    /\ OdKeys(self.data) = <<"date", "time", "chl", "SST">>
    /\ self.length = 1
    /\ Column(self, "chl") = <<IntCell(3)>>
    /\ Column(self, "SST") = <<StrCell("-999.0")>>

\* The lines of the written file after its /end_header line.
WrittenRows(w) == LinesAfter(w.lines, EndHeaderAt(w.lines))

\* The text the writer is to emit for a cell: the string form of the
\* missing sentinel for a number that equals the sentinel or is
\* not-a-number, the string form of the cell otherwise.
EmittedCell(r, c) ==
    IF IsNumeric(c) /\ (c.t = "nan" \/ PyEq(c, r.missing))
    THEN PyStr(r.missing)
    ELSE PyStr(c)

\* The texts to emit for the row of index i (counted from 1).
EmittedRow(r, i) == [k \in 1..Len(r.data) |-> EmittedCell(r, r.data[k].v[i])]

\* C17: writeSBfile returns, and writes one line per row that holds, for
\* each cell, the string form of the missing sentinel if the cell is a
\* number equal to the sentinel or not-a-number, and the string form of
\* the cell otherwise; a text cell is written as it is.
C17_CellForms ==
    (/\ ret.op = "writeSBfile"
     /\ \A k \in 1..Len(self.data) : Len(self.data[k].v) = self.length)
    => /\ ret.kind = ""
       /\ Len(WrittenRows(fout)) = self.length
       /\ \A i \in 1..self.length :
             ReSplit(self.delim, WrittenRows(fout)[i]) = EmittedRow(self, i)

\* The text of the /missing= directive of the file.
MissingToken(f) ==
    ValueOf(f[CHOOSE i \in 1..EndHeaderAt(f) : IsDirective(f[i], Lower(f[i]), "/missing=")])

\* A token of the file as it is to be written back: the missing token of
\* the file for a number that equals the missing sentinel, the token
\* itself otherwise.
TokenBack(f, tok) ==
    IF ParseNumber(tok).ok /\ PyEq(ToFloat(ParseNumber(tok).val), FloatOf(MissingToken(f)))
    THEN MissingToken(f)
    ELSE tok

\* The tokens of a data line as they are to be written back.
RowBack(f, l) == [j \in 1..Len(Tokens(l)) |-> TokenBack(f, Tokens(l)[j])]

\* C18: for a well-formed file, writeSBfile right after the constructor
\* returns and writes the lines of the header as they were read and one
\* line per data line with the same tokens, a token equal to the missing
\* sentinel being written as the missing token of the file.
C18_RoundTrip ==
    ret.op = "writeSBfile"
    => /\ ret.kind = ""
       /\ Len(fout.lines) = Len(file)
       /\ \A i \in 1..EndHeaderAt(file) : fout.lines[i] = file[i]
       /\ Len(WrittenRows(fout)) = Len(DataLines(file))
       /\ \A i \in 1..Len(DataLines(file)) :
             Tokens(WrittenRows(fout)[i]) = RowBack(file, DataLines(file)[i])

\* C19: whenever the constructor resolved a delimiter, writeSBfile resolves
\* the character of the same class from the delimiter header, and writes
\* each row as its cells joined by one such character.
C19_SameDelimiter ==
    ret.op = "writeSBfile"
    => /\ fout.delim_bound
       /\ Len(fout.delim) = 1
       /\ IsDelimCh(self.delim, fout.delim)
       /\ Len(WrittenRows(fout)) = Len(DataLines(file))
       /\ \A i \in 1..Len(DataLines(file)) :
             WrittenRows(fout)[i] = Join(fout.delim, RowBack(file, DataLines(file)[i]))

\* The header lines of the file that begin with the comment mark, in
\* order, without the mark; the lines that begin with !/ are among them
\* only when all is TRUE.
RECURSIVE CommentLines(_, _, _)
CommentLines(f, n, all) ==
    IF n = 0 THEN <<>>
    ELSE CommentLines(f, n - 1, all)
         \o (IF /\ Slice(f[n], 1, 1) = "!"
                 /\ (all \/ Slice(f[n], 1, 2) # "!/")
              THEN <<Tail(f[n])>> ELSE <<>>)

\* The header lines of the form /key=value, the first and the last line
\* of the header excepted.
DirectiveLines(f) ==
    {f[i] : i \in {j \in 2..(EndHeaderAt(f) - 1) :
                     Slice(f[j], 1, 1) = "/" /\ Contains(f[j], "=")}}

\* C20: after the constructor the comment list holds, in the order of the
\* file, exactly the header lines that begin with ! without that mark,
\* those that begin with !/ only without mask_commented_headers; a
\* directive whose value holds a ! is no comment and is stored as a header.
C20_Comments ==
    pc = "ready"
    => /\ self.comments
            = CommentLines(file, EndHeaderAt(file), ~opt.mask_commented_headers)
       /\ \A l \in DirectiveLines(file) :
             /\ OdHas(self.headers, Lower(Tail(Split1(l, "=")[1])))
             /\ OdGet(self.headers, Lower(Tail(Split1(l, "=")[1]))) = ValueOf(l)

\* The line is a directive of the header: not empty, no comment (it does
\* not begin with !) and no section marker.
IsDirectiveLine(l) ==
    /\ l # ""
    /\ Slice(l, 1, 1) # "!"
    /\ ~Contains(Lower(l), "/begin_header")
    /\ ~Contains(Lower(l), "/end_header")

\* The header map of the first n lines of the file: each directive with
\* an equals sign, split at the first one, under its lower-cased key
\* without the leading character.
RECURSIVE HeaderMap(_, _)
HeaderMap(f, n) ==
    IF n = 0 THEN <<>>
    ELSE IF IsDirectiveLine(f[n]) /\ Contains(f[n], "=")
    THEN OdSet(HeaderMap(f, n - 1), Lower(Tail(Split1(f[n], "=")[1])), ValueOf(f[n]))
    ELSE HeaderMap(f, n - 1)

\* C21: a directive line of the header without an equals sign makes the
\* constructor fail with the MalformedDirective error; otherwise the
\* headers are the directive lines split at the first equals sign, under
\* the lower-cased key without its slash, in the order of the file.
C21_Directives ==
    pc # "new"
    => IF \E i \in 1..EndHeaderAt(file) :
             IsDirectiveLine(file[i]) /\ ~Contains(file[i], "=")
       THEN pc = "failed" /\ ret.kind = "MalformedDirective"
       ELSE pc = "ready" /\ self.headers = HeaderMap(file, EndHeaderAt(file))

\* The text after the equals sign of the header line of this key.
DirectiveValue(f, key) ==
    ValueOf(f[CHOOSE i \in 1..EndHeaderAt(f) : IsDirective(f[i], Lower(f[i]), key)])

\* The names of a /fields or /units list, lower-cased.
ListOf(f, key) == Split(Lower(DirectiveValue(f, key)), ",")

\* C22: after the constructor each field has the unit at its position of
\* the /units list when the list is there and as long as the field list;
\* with no /units line, or one of another length, every field has the
\* unit "none" and the constructor succeeds.
C22_Units ==
    (/\ pc # "new"
     /\ HasDirective(file, "/fields=") /\ HasDirective(file, "/missing=")
     /\ HasDirective(file, "/delimiter="))
    => /\ pc = "ready"
       /\ OdKeys(self.variables) = ListOf(file, "/fields=")
       /\ IF HasDirective(file, "/units=")
          THEN \A k \in 1..Len(self.variables) :
                  self.variables[k].v[2]
                     = IF Len(ListOf(file, "/units=")) = Len(ListOf(file, "/fields="))
                       THEN ListOf(file, "/units=")[k]
                       ELSE "none"
          ELSE \A k \in 1..Len(self.variables) : self.variables[k].v = "none"

IsPrefix(a, b) == Len(a) <= Len(b) /\ SubSeq(b, 1, Len(a)) = a

\* C24: over the calls of addDataToOutput the row count never decreases,
\* no column is removed and the columns keep their order, a new column
\* being added after the last.
C24_OnlyGrows ==
    [][pc = "ready"
       => /\ self'.length >= self.length
          /\ IsPrefix(OdKeys(self.data), OdKeys(self'.data))]_vars

\* C24 witness: calls of addDataToOutput have taken the object read from
\* one row to three rows and from three columns to four.
C24_Witness ==
    /\ ret.op = "addDataToOutput"
    /\ Len(DataLines(file)) = 1
    /\ self.length = 3
    /\ OdKeys(self.data) = <<"date", "time", "chl", "SST">>

\* Every data line of the file holds, for each field, the well-formed
\* token of that field.
WellFormedRows ==
    \A i \in 1..Len(DataLines(file)) :
        DataLines(file)[i]
          = Join(",", [j \in 1..Len(ListOf(file, "/fields=")) |->
                          TemporalToken(ListOf(file, "/fields=")[j])])

\* C25: when the rule selected reads columns and every row and the
\* /start_date header are well formed, fd_datetime returns without an
\* exception one timestamp per row.
C25_OnePerRow ==
    (/\ ret.op = "fd_datetime"
     /\ ret.out.rule \notin HeaderRules \cup {"none", "no data"}
     /\ WellFormedRows
     /\ OdHas(self.headers, "start_date")
           => WellFormedDate(OdGet(self.headers, "start_date")))
    => /\ ret.kind = "ok"
       /\ Len(ret.out.dt) = self.length

\* What the constructor makes of the header alone: the lines of the file
\* up to and including /end_header.
HeaderOnly == ReadSB(SubSeq(file, 1, EndHeaderAt(file)), opt)

\* The object r has the headers, comments, field list, delimiter and
\* sentinels of the object h.
SameDescriptors(r, h) ==
    /\ r.headers = h.headers
    /\ r.comments = h.comments
    /\ OdKeys(r.data) = OdKeys(h.data)
    /\ r.vars = h.vars
    /\ r.delim = h.delim
    /\ r.missing = h.missing /\ r.adl = h.adl /\ r.bdl = h.bdl

\* C26: the headers, the comments, the field list, the delimiter and the
\* sentinels of the constructed object are those of the lines up to
\* /end_header, whatever the lines after it hold, and only the lines
\* after /end_header are decoded as rows.
C26_HeaderDecides ==
    pc = "ready"
    => /\ SameDescriptors(self, HeaderOnly)
       /\ self.length = Len(DataLines(file))

\* The rules that read a second column.
SecondRules ==
    {"year/month/day/hour/minute/second", "date/hour/minute/second",
     "year/sdy/hour/minute/second", "start_date header and hour/minute/second"}

\* The token of the second column in the data line i of the file.
SecondToken(i) ==
    Tokens(DataLines(file)[i])
       [CHOOSE j \in 1..Len(ListOf(file, "/fields=")) :
           ListOf(file, "/fields=")[j] = "second"]

\* C27: under each rule that reads the second column, a cell with a
\* decimal point gives its integer part as seconds and its fraction digits
\* padded on the right to six digits as microseconds, and a cell without
\* a point gives 0 microseconds.
C27_SecondColumn ==
    (/\ ret.op = "fd_datetime"
     /\ ret.out.rule \in SecondRules
     /\ WellFormedRows \/ file \in {run.lines : run \in FamilyS})
    => /\ ret.kind = "ok"
       /\ Len(ret.out.dt) = self.length
       /\ \A i \in 1..self.length :
             /\ ret.out.dt[i][6] = DigitsToInt(Split(SecondToken(i), ".")[1])
             /\ ret.out.dt[i][7] = ExpectedMicro(FractionOf(SecondToken(i)))

\* C28: a header whose /missing value is a number, 0 included, passes the
\* checks at /end_header: the constructor succeeds, the sentinel is that
\* number, and the tokens of the rows equal to it are decoded as
\* not-a-number.
C28_MissingResolved ==
    (/\ pc # "new"
     /\ HasDirective(file, "/missing=")
     /\ is_number(MissingToken(file)))
    => /\ pc = "ready"
       /\ PyEq(self.missing, FloatOf(MissingToken(file)))
       /\ \A i \in 1..Len(DataLines(file)) :
             \A j \in 1..Len(Tokens(DataLines(file)[i])) :
                TokenBack(file, Tokens(DataLines(file)[i])[j]) = MissingToken(file)
                => self.data[j].v[i].t = "nan"

\* C29: a call of addDataToOutput that raises leaves the headers, the
\* columns, the template column and the row count as they were before
\* the call.
C29_AllOrNothing ==
    [][(/\ ret'.op = "addDataToOutput"
        /\ ret'.kind # "")
       => /\ self'.headers = self.headers
          /\ self'.data = self.data
          /\ self'.empty_col = self.empty_col
          /\ self'.length = self.length]_vars

\* No element occurs twice in the sequence.
NoDuplicates(q) == \A i, j \in 1..Len(q) : q[i] = q[j] => i = j

\* C30: after the constructor and after any calls of addDataToOutput, the
\* names of the fields header, lower-cased, are the keys of the columns in
\* the same order, none of them twice.
C30_FieldsMatchColumns ==
    pc = "ready"
    => /\ OdHas(self.headers, "fields")
       /\ Split(Lower(OdGet(self.headers, "fields")), ",") = OdKeys(self.data)
       /\ NoDuplicates(OdKeys(self.data))

====
